---- MODULE Spec2Model ----
(***************************************************************************)
(* A model of booklib: the Book record (booklib/models.py), the JSON file  *)
(* backend (booklib/storage.py), the SQLite backend                        *)
(* (booklib/storage_sqlite.py) and the JSON -> SQLite migration            *)
(* (booklib/commands_migrate.py).                                          *)
(*                                                                         *)
(* Encoding of Python values:                                              *)
(*   str            a sequence of characters, each character a one-token   *)
(*                  TLA+ string ("a", " ", and "YA"/"ya" for the Cyrillic  *)
(*                  capital/small letter ya, U+042F/U+044F);               *)
(*   Optional[x]    the empty set for None, the singleton {x} otherwise;   *)
(*   List[x]        a sequence;                                            *)
(*   Book / dict    a record with the ten fields of the dataclass.         *)
(***************************************************************************)
EXTENDS Integers, Sequences, FiniteSets, TLC

VARIABLES file, db, backend, last, existing, cand, found, args, ret, csv

vars == <<file, db, backend, last, existing, cand, found, args, ret, csv>>

(***************************************************************************)
(* Bounds of the model.                                                    *)
(***************************************************************************)
MaxBooks == 2
MaxSave == 2
MaxCutSave == 1
MaxExisting == 2

(***************************************************************************)
(* Characters and strings.                                                 *)
(***************************************************************************)
None == {}

Some(v) == {v}

\* Python's `s or ""` for an Optional[str].
OrEmpty(o) == IF o = None THEN <<>> ELSE CHOOSE v \in o : TRUE

\* str.isspace for one character.
IsSpace(c) == c = " "

\* Unicode case folding of one character (str.casefold works per character on
\* the letters used here): ASCII and Cyrillic capitals fold to the small letter.
CasefoldChar(c) ==
    CASE c = "A" -> "a" [] c = "B" -> "b" [] c = "G" -> "g" [] c = "K" -> "k"
      [] c = "Q" -> "q" [] c = "T" -> "t" [] c = "U" -> "u" [] c = "X" -> "x"
      [] c = "YA" -> "ya" [] OTHER -> c

\* SQLite's built-in LOWER(): folds the 26 ASCII capitals only.
SqlLowerChar(c) ==
    CASE c = "A" -> "a" [] c = "B" -> "b" [] c = "G" -> "g" [] c = "K" -> "k"
      [] c = "Q" -> "q" [] c = "T" -> "t" [] c = "U" -> "u" [] c = "X" -> "x"
      [] OTHER -> c

\* The code point of a character: SQLite's BINARY collation compares the UTF-8
\* bytes, which orders strings by code point.
CodePoint(c) ==
    CASE c = " " -> 32 [] c = "0" -> 48 [] c = "1" -> 49 [] c = "2" -> 50
      [] c = "9" -> 57
      [] c = "A" -> 65 [] c = "B" -> 66 [] c = "G" -> 71 [] c = "K" -> 75
      [] c = "Q" -> 81 [] c = "T" -> 84 [] c = "U" -> 85
      [] c = "X" -> 88 [] c = "a" -> 97 [] c = "b" -> 98 [] c = "c" -> 99
      [] c = "g" -> 103 [] c = "k" -> 107 [] c = "q" -> 113 [] c = "t" -> 116
      [] c = "u" -> 117 [] c = "x" -> 120 [] c = "YA" -> 1071 [] c = "ya" -> 1103
      [] OTHER -> 0

Casefold(s) == [i \in 1..Len(s) |-> CasefoldChar(s[i])]

SqlLower(s) == [i \in 1..Len(s) |-> SqlLowerChar(s[i])]

RECURSIVE LStrip(_)
LStrip(s) == IF s # <<>> /\ IsSpace(Head(s)) THEN LStrip(Tail(s)) ELSE s

RECURSIVE RStrip(_)
RStrip(s) ==
    IF s # <<>> /\ IsSpace(s[Len(s)]) THEN RStrip(SubSeq(s, 1, Len(s) - 1)) ELSE s

\* str.strip()
Strip(s) == RStrip(LStrip(s))

\* Strict order of SQLite's BINARY collation on two strings.
RECURSIVE StrLess(_, _)
StrLess(s, t) ==
    IF t = <<>> THEN FALSE
    ELSE IF s = <<>> THEN TRUE
    ELSE IF CodePoint(Head(s)) # CodePoint(Head(t))
         THEN CodePoint(Head(s)) < CodePoint(Head(t))
    ELSE StrLess(Tail(s), Tail(t))

\* storage.py _norm: (s or "").strip().casefold()
Norm(o) == Casefold(Strip(OrEmpty(o)))

(***************************************************************************)
(* The Book record (models.py) and its dictionary form.                    *)
(***************************************************************************)
\* The value uuid.uuid4() and _now_iso() give when from_dict has to fill in a
\* missing id or added_at.
FreshUuid == <<"u", "u", "i", "d">>

NowIso == "now"

\* Book.to_dict: dataclasses.asdict, field by field (lists are copied).
ToDict(b) ==
    [id |-> b.id, title |-> b.title, author |-> b.author, year |-> b.year,
     genre |-> b.genre, tags |-> b.tags, isbn |-> b.isbn, pages |-> b.pages,
     quotes |-> b.quotes, added_at |-> b.added_at]

\* Book.from_dict: an empty id or added_at is replaced, year and pages go
\* through int() unless None or "", the other fields are taken as they are.
FromDict(d) ==
    [id |-> IF d.id = <<>> THEN FreshUuid ELSE d.id,
     title |-> d.title, author |-> d.author,
     year |-> IF d.year = None THEN None ELSE d.year,
     genre |-> d.genre, tags |-> d.tags, isbn |-> d.isbn,
     pages |-> IF d.pages = None THEN None ELSE d.pages,
     quotes |-> d.quotes,
     added_at |-> IF d.added_at = "" THEN NowIso ELSE d.added_at]

(***************************************************************************)
(* The books the operations are called with.  Four contents, chosen so     *)
(* that ContentA/ContentD collide on title, author and year (in different  *)
(* letter case), ContentB/ContentC collide on isbn (in different letter    *)
(* case) and no other pair collides; each content under each id.           *)
(***************************************************************************)
Ids == {<<"a">>, <<"a", "b">>}

ContentA ==
    [title |-> <<"T">>, author |-> <<"B">>, year |-> Some(2000), genre |-> Some(<<"g">>),
     tags |-> << <<" ">>, <<"k">> >>, isbn |-> None, pages |-> Some(256),
     quotes |-> << <<"q">>, <<" ", " ">> >>, added_at |-> "T0"]

ContentB ==
    [title |-> <<"T">>, author |-> <<"A">>, year |-> None, genre |-> None,
     tags |-> << <<"k">> >>, isbn |-> Some(<<"x">>), pages |-> None,
     quotes |-> <<>>, added_at |-> "T1"]

ContentC ==
    [title |-> <<"U">>, author |-> <<"A">>, year |-> None, genre |-> None,
     tags |-> <<>>, isbn |-> Some(<<"X">>), pages |-> None,
     quotes |-> << <<"q">> >>, added_at |-> "T0"]

ContentD ==
    [title |-> <<"t">>, author |-> <<"b">>, year |-> Some(2000), genre |-> None,
     tags |-> <<>>, isbn |-> Some(<<>>), pages |-> None,
     quotes |-> <<>>, added_at |-> "T0"]

Contents == {ContentA, ContentB, ContentC, ContentD}

MkBook(i, c) ==
    [id |-> i, title |-> c.title, author |-> c.author, year |-> c.year,
     genre |-> c.genre, tags |-> c.tags, isbn |-> c.isbn, pages |-> c.pages,
     quotes |-> c.quotes, added_at |-> c.added_at]

Pool == {MkBook(i, c) : i \in Ids, c \in Contents}

\* The books save() is called with: two of them share an id, one has blank
\* tags and quotes, and their (title, author) order differs from every order
\* of arrival.
SavePool ==
    {MkBook(<<"a">>, ContentA), MkBook(<<"a", "b">>, ContentB),
     MkBook(<<"a">>, ContentC), MkBook(<<"a", "b">>, ContentD)}

\* All sequences over S of length at most n.
SeqsUpTo(S, n) == UNION {[1..k -> S] : k \in 0..n}

(***************************************************************************)
(* The file backend (storage.py).  The persisted document is              *)
(*   kind "list"         a JSON array of book objects (items),             *)
(*   kind "nonlist"      valid JSON that is not an array,                  *)
(*   kind "invalid"      text that is not JSON (empty or cut-off output),  *)
(*   kind "undecodable"  bytes that are not UTF-8 text.                    *)
(* json.dump followed by json.load gives back the str, int, None and list  *)
(* values of a book's dictionary unchanged.                                *)
(***************************************************************************)
ListDoc(items) == [kind |-> "list", items |-> items]

BrokenDoc(kind) == [kind |-> kind, items |-> <<>>]

MalformedKinds == {"nonlist", "invalid", "undecodable"}

NoError == "none"

\* Storage._load_raw: open(path, "r", encoding="utf-8") and json.load; only
\* json.JSONDecodeError is caught, so a decoding error of the text propagates.
JsonLoadRaw(f) ==
    CASE f.kind = "undecodable" -> [raised |-> "UnicodeDecodeError", items |-> <<>>]
      [] f.kind = "invalid" -> [raised |-> NoError, items |-> <<>>]
      [] f.kind = "nonlist" -> [raised |-> NoError, items |-> <<>>]
      [] OTHER -> [raised |-> NoError, items |-> f.items]

\* Storage.load
JsonLoad(f) ==
    LET raw == JsonLoadRaw(f)
    IN [raised |-> raw.raised,
        books |-> [i \in 1..Len(raw.items) |-> FromDict(raw.items[i])]]

\* Storage._save_raw, run to completion: open(path, "w") and json.dump.
JsonSaveRaw(items) == ListDoc(items)

\* Storage._save_raw interrupted after open(path, "w") has truncated the file
\* and before json.dump has written the closing bracket: what is on disk is a
\* proper prefix of the output, which is not JSON.
JsonSaveRawCut(items) == BrokenDoc("invalid")

\* Storage.save
JsonSave(books) == JsonSaveRaw([i \in 1..Len(books) |-> ToDict(books[i])])

\* One step of the loop of Storage._find_duplicate: does stored book b stop
\* the scan for candidate c.
JsonDupStep(b, c) ==
    \/ /\ Norm(b.isbn) # <<>>
       /\ Norm(c.isbn) # <<>>
       /\ Norm(b.isbn) = Norm(c.isbn)
    \/ /\ Norm(Some(b.title)) = Norm(Some(c.title))
       /\ Norm(Some(b.author)) = Norm(Some(c.author))
       /\ ((b.year = None /\ c.year = None) \/ b.year = c.year)

\* Storage._find_duplicate: the first stored book at which the scan stops.
JsonFindDuplicate(books, c) ==
    LET hits == {i \in 1..Len(books) : JsonDupStep(books[i], c)}
    IN IF hits = {} THEN None
       ELSE Some(books[CHOOSE i \in hits : \A j \in hits : i <= j])

\* The outcome of a file-backend operation: the document afterwards, the
\* value returned and the exception that left the call, if any.
JsonOutcome(f, ok, dup, raised) ==
    [file |-> f, ok |-> ok, dup |-> dup, raised |-> raised]

\* Storage.add
JsonAdd(f, book) ==
    LET ld == JsonLoad(f)
        dup == JsonFindDuplicate(ld.books, book)
    IN IF ld.raised # NoError THEN JsonOutcome(f, FALSE, None, ld.raised)
       ELSE IF dup # None THEN JsonOutcome(f, FALSE, dup, NoError)
       ELSE JsonOutcome(JsonSave(Append(ld.books, book)), TRUE, None, NoError)

\* Storage.get
JsonGet(f, id) ==
    LET ld == JsonLoad(f)
        hits == {i \in 1..Len(ld.books) : ld.books[i].id = id}
    IN IF ld.raised # NoError THEN [raised |-> ld.raised, book |-> None]
       ELSE IF hits = {} THEN [raised |-> NoError, book |-> None]
       ELSE [raised |-> NoError,
             book |-> Some(ld.books[CHOOSE i \in hits : \A j \in hits : i <= j])]

\* Storage.update: the first stored book with the id is replaced.
JsonUpdate(f, book) ==
    LET ld == JsonLoad(f)
        hits == {i \in 1..Len(ld.books) : ld.books[i].id = book.id}
        first == CHOOSE i \in hits : \A j \in hits : i <= j
    IN IF ld.raised # NoError THEN JsonOutcome(f, FALSE, None, ld.raised)
       ELSE IF hits = {} THEN JsonOutcome(f, FALSE, None, NoError)
       ELSE JsonOutcome(JsonSave([ld.books EXCEPT ![first] = book]), TRUE, None, NoError)

\* Storage.delete: every stored book with the id is left out.
JsonDelete(f, id) ==
    LET ld == JsonLoad(f)
        KeepIt(b) == b.id # id
        kept == SelectSeq(ld.books, KeepIt)
    IN IF ld.raised # NoError THEN JsonOutcome(f, FALSE, None, ld.raised)
       ELSE IF Len(kept) # Len(ld.books) THEN JsonOutcome(JsonSave(kept), TRUE, None, NoError)
       ELSE JsonOutcome(f, FALSE, None, NoError)

(***************************************************************************)
(* The SQLite backend (storage_sqlite.py).  A table is the sequence of its *)
(* rows in rowid order: a new row gets a rowid above every present one, so *)
(* INSERT appends; UPDATE keeps a row's place; a table scan and an index   *)
(* scan on one book_id both visit rows by ascending rowid.                 *)
(***************************************************************************)
EmptyDb == [books |-> <<>>, tags |-> <<>>, quotes |-> <<>>]

\* A connection on which the pragma is not issued: SQLite's default, under
\* which the ON DELETE CASCADE clauses are not enforced.
ForeignKeysUnset == FALSE

\* PRAGMA foreign_keys = ON, issued by SqliteStorage._db on every connection:
\* the ON DELETE CASCADE clauses of tags and quotes are enforced.
ForeignKeysOn == TRUE

BookRow(b) ==
    [id |-> b.id, title |-> b.title, author |-> b.author, year |-> b.year,
     genre |-> b.genre, isbn |-> b.isbn, pages |-> b.pages, added_at |-> b.added_at]

\* The rows inserted for a list of tags or quotes: `if t.strip()` skips the
\* entries that are empty or whitespace only.
ChildRows(id, texts) ==
    LET NonBlank(t) == Strip(t) # <<>>
        kept == SelectSeq(texts, NonBlank)
    IN [i \in 1..Len(kept) |-> [book_id |-> id, text |-> kept[i]]]

\* SELECT ... FROM tags/quotes WHERE book_id=?
ChildTexts(rows, id) ==
    LET Mine(r) == r.book_id = id
        mine == SelectSeq(rows, Mine)
    IN [i \in 1..Len(mine) |-> mine[i].text]

\* DELETE FROM tags/quotes WHERE book_id=?
DropChildren(rows, id) ==
    LET Others(r) == r.book_id # id
    IN SelectSeq(rows, Others)

\* SqliteStorage._row_to_book
SqlRowToBook(d, row) ==
    [id |-> row.id, title |-> row.title, author |-> row.author, year |-> row.year,
     genre |-> row.genre, tags |-> ChildTexts(d.tags, row.id), isbn |-> row.isbn,
     pages |-> row.pages, quotes |-> ChildTexts(d.quotes, row.id),
     added_at |-> row.added_at]

\* ORDER BY title, author under the BINARY collation.
RowLess(r, q) ==
    \/ StrLess(r.title, q.title)
    \/ r.title = q.title /\ StrLess(r.author, q.author)

\* The rows sorted by (title, author); rows equal on both keep rowid order.
RECURSIVE OrderByTitleAuthor(_)
OrderByTitleAuthor(rows) ==
    IF rows = <<>> THEN <<>>
    ELSE LET rest == OrderByTitleAuthor(SubSeq(rows, 1, Len(rows) - 1))
             r == rows[Len(rows)]
             k == Cardinality({i \in 1..Len(rest) : ~RowLess(r, rest[i])})
         IN SubSeq(rest, 1, k) \o <<r>> \o SubSeq(rest, k + 1, Len(rest))

\* SqliteStorage.load
SqlLoad(d) ==
    LET rows == OrderByTitleAuthor(d.books)
    IN [i \in 1..Len(rows) |-> SqlRowToBook(d, rows[i])]

\* The outcome of an SQLite operation: the connection's view of the tables
\* when the call ends, whether con.commit() was reached, the value returned
\* and the exception that left the call, if any.
SqlOutcome(d, committed, ok, dup, raised) ==
    [db |-> d, committed |-> committed, ok |-> ok, dup |-> dup, raised |-> raised]

\* What is stored once the connection is closed: the connection's view if
\* con.commit() was reached, else the tables as they were (con.close() rolls
\* the open transaction back).
SqlClose(d, out) == IF out.committed THEN out.db ELSE d

\* INSERT INTO books plus the tag and quote rows of SqliteStorage.save and
\* SqliteStorage.add, for one book.
InsertBook(d, b) ==
    [books |-> Append(d.books, BookRow(b)),
     tags |-> d.tags \o ChildRows(b.id, b.tags),
     quotes |-> d.quotes \o ChildRows(b.id, b.quotes)]

HasId(d, id) == \E i \in 1..Len(d.books) : d.books[i].id = id

\* The loop of SqliteStorage.save over the books, from the emptied tables: an
\* INSERT of an id already present fails the PRIMARY KEY constraint.
RECURSIVE InsertAll(_, _)
InsertAll(d, books) ==
    IF books = <<>> THEN SqlOutcome(d, TRUE, TRUE, None, NoError)
    ELSE IF HasId(d, Head(books).id)
         THEN SqlOutcome(d, FALSE, FALSE, None, "IntegrityError")
    ELSE InsertAll(InsertBook(d, Head(books)), Tail(books))

\* SqliteStorage.save
SqlSave(d, books) == InsertAll(EmptyDb, books)

\* SqliteStorage._find_duplicate
SqlFindDuplicate(d, c) ==
    LET byIsbn == {i \in 1..Len(d.books) :
                      /\ d.books[i].isbn # None
                      /\ SqlLower(OrEmpty(d.books[i].isbn)) = SqlLower(OrEmpty(c.isbn))}
        byTitle == {i \in 1..Len(d.books) :
                      /\ SqlLower(d.books[i].title) = SqlLower(c.title)
                      /\ SqlLower(d.books[i].author) = SqlLower(c.author)
                      /\ \/ d.books[i].year = None /\ c.year = None
                         \/ d.books[i].year = c.year}
    IN IF OrEmpty(c.isbn) # <<>> /\ byIsbn # {}
       THEN Some(SqlRowToBook(d, d.books[CHOOSE i \in byIsbn : \A j \in byIsbn : i <= j]))
       ELSE IF byTitle # {}
       THEN Some(SqlRowToBook(d, d.books[CHOOSE i \in byTitle : \A j \in byTitle : i <= j]))
       ELSE None

\* SqliteStorage.add
SqlAdd(d, book) ==
    LET dup == SqlFindDuplicate(d, book)
    IN IF dup # None THEN SqlOutcome(d, FALSE, FALSE, dup, NoError)
       ELSE IF HasId(d, book.id)
            THEN SqlOutcome(d, FALSE, FALSE, None, "IntegrityError")
       ELSE SqlOutcome(InsertBook(d, book), TRUE, TRUE, None, NoError)

\* SqliteStorage.get
SqlGet(d, id) ==
    LET hits == {i \in 1..Len(d.books) : d.books[i].id = id}
    IN IF hits = {} THEN None
       ELSE Some(SqlRowToBook(d, d.books[CHOOSE i \in hits : TRUE]))

\* SqliteStorage.update
SqlUpdate(d, book) ==
    IF ~HasId(d, book.id) THEN SqlOutcome(d, FALSE, FALSE, None, NoError)
    ELSE SqlOutcome(
           [books |-> [i \in 1..Len(d.books) |->
                          IF d.books[i].id = book.id THEN BookRow(book) ELSE d.books[i]],
            tags |-> DropChildren(d.tags, book.id) \o ChildRows(book.id, book.tags),
            quotes |-> DropChildren(d.quotes, book.id) \o ChildRows(book.id, book.quotes)],
           TRUE, TRUE, None, NoError)

\* SqliteStorage.delete: DELETE FROM books WHERE id=?, which cascades to the
\* tag and quote rows when foreign keys are enforced; rowcount > 0 is returned.
SqlDelete(d, id) ==
    LET Others(r) == r.id # id
    IN SqlOutcome(
           [books |-> SelectSeq(d.books, Others),
            tags |-> IF ForeignKeysOn THEN DropChildren(d.tags, id) ELSE d.tags,
            quotes |-> IF ForeignKeysOn THEN DropChildren(d.quotes, id) ELSE d.quotes],
           TRUE, HasId(d, id), None, NoError)

(***************************************************************************)
(* The state machine of a store.  `backend` is the class main.get_storage  *)
(* constructs ("json": Storage, "sqlite": SqliteStorage), or "migrated"    *)
(* once cmd_migrate_sqlite has copied the file store into the database.    *)
(* `last` records the latest call: its arguments, what it returned or      *)
(* raised, and the collection load() gave just before it.                  *)
(***************************************************************************)
NoCall ==
    [op |-> "none", book |-> None, id |-> <<>>, books |-> <<>>, ok |-> FALSE,
     dup |-> None, raised |-> NoError, before |-> <<>>, after |-> <<>>,
     interrupted |-> FALSE, count |-> 0, text |-> <<>>, index |-> 0,
     printed |-> "none"]

\* The arguments and the result of a function of the filter/sort engine or of
\* the identifier resolver, before any is called; the CSV file, not yet written.
NoArgs == [fn |-> "none"]

NoRet == [done |-> FALSE]

NoCsv == [written |-> FALSE, rows |-> <<>>]

\* load() on the store in use, and whether it raises.
Load == IF backend = "json" THEN JsonLoad(file).books ELSE SqlLoad(db)

LoadRaises == backend = "json" /\ JsonLoad(file).raised # NoError

\* get(id) on the store in use.
Get(id) == IF backend = "json" THEN JsonGet(file, id).book ELSE SqlGet(db, id)

\* The number of stored records.
Count == IF backend = "json" THEN Len(JsonLoadRaw(file).items) ELSE Len(db.books)

Init ==
    /\ backend \in {"json", "sqlite"}
    /\ file = JsonSaveRaw(<<>>)
    /\ db = EmptyDb
    /\ last = NoCall
    /\ existing = <<>>
    /\ cand = MkBook(<<"a">>, ContentA)
    /\ found = [done |-> FALSE, json |-> None, sql |-> None]
    /\ args = NoArgs
    /\ ret = NoRet
    /\ csv = NoCsv

JsonStep(out, call) ==
    /\ file' = out.file
    /\ last' = [call EXCEPT !.ok = out.ok, !.dup = out.dup, !.raised = out.raised,
                            !.before = JsonLoad(file).books]
    /\ UNCHANGED <<db, backend, existing, cand, found, args, ret, csv>>

SqlStep(out, call) ==
    /\ db' = SqlClose(db, out)
    /\ last' = [call EXCEPT !.ok = out.ok, !.dup = out.dup, !.raised = out.raised,
                            !.before = SqlLoad(db)]
    /\ UNCHANGED <<file, backend, existing, cand, found, args, ret, csv>>

JsonAddBook(b) ==
    /\ backend = "json"
    /\ Count < MaxBooks \/ ~JsonAdd(file, b).ok
    /\ JsonStep(JsonAdd(file, b), [NoCall EXCEPT !.op = "add", !.book = Some(b)])

SqlAddBook(b) ==
    /\ backend = "sqlite"
    /\ Count < MaxBooks \/ ~SqlAdd(db, b).ok
    /\ SqlStep(SqlAdd(db, b), [NoCall EXCEPT !.op = "add", !.book = Some(b)])

JsonUpdateBook(b) ==
    /\ backend = "json"
    /\ JsonStep(JsonUpdate(file, b), [NoCall EXCEPT !.op = "update", !.book = Some(b)])

SqlUpdateBook(b) ==
    /\ backend = "sqlite"
    /\ SqlStep(SqlUpdate(db, b), [NoCall EXCEPT !.op = "update", !.book = Some(b)])

JsonDeleteBook(id) ==
    /\ backend = "json"
    /\ JsonStep(JsonDelete(file, id), [NoCall EXCEPT !.op = "delete", !.id = id])

SqlDeleteBook(id) ==
    /\ backend = "sqlite"
    /\ SqlStep(SqlDelete(db, id), [NoCall EXCEPT !.op = "delete", !.id = id])

\* save(books) does not read the stored collection: `before` stays empty.
JsonSaveBooks(books) ==
    /\ backend = "json"
    /\ file' = JsonSave(books)
    /\ last' = [NoCall EXCEPT !.op = "save", !.books = books, !.ok = TRUE]
    /\ UNCHANGED <<db, backend, existing, cand, found, args, ret, csv>>

SqlSaveBooks(books) ==
    /\ backend = "sqlite"
    /\ db' = SqlClose(db, SqlSave(db, books))
    /\ last' = [NoCall EXCEPT !.op = "save", !.books = books,
                              !.ok = SqlSave(db, books).ok,
                              !.raised = SqlSave(db, books).raised]
    /\ UNCHANGED <<file, backend, existing, cand, found, args, ret, csv>>

\* save(load()): a loaded collection written back.
JsonResave ==
    /\ backend = "json"
    /\ ~LoadRaises
    /\ file' = JsonSave(JsonLoad(file).books)
    /\ last' = [NoCall EXCEPT !.op = "resave", !.books = JsonLoad(file).books,
                              !.ok = TRUE, !.before = JsonLoad(file).books]
    /\ UNCHANGED <<db, backend, existing, cand, found, args, ret, csv>>

SqlResave ==
    /\ backend = "sqlite"
    /\ db' = SqlClose(db, SqlSave(db, SqlLoad(db)))
    /\ last' = [NoCall EXCEPT !.op = "resave", !.books = SqlLoad(db),
                              !.ok = SqlSave(db, SqlLoad(db)).ok,
                              !.raised = SqlSave(db, SqlLoad(db)).raised,
                              !.before = SqlLoad(db)]
    /\ UNCHANGED <<file, backend, existing, cand, found, args, ret, csv>>

(***************************************************************************)
(* A call that is interrupted (the process is killed, or the write fails)  *)
(* after its first write step and before its last.  In the file backend    *)
(* every write is Storage._save_raw; in the SQLite backend the statements  *)
(* run in one transaction and the interruption comes before con.commit().  *)
(* `after` is the collection the call would have stored.                   *)
(***************************************************************************)
JsonCut(out, call) ==
    /\ out.ok
    /\ file' = JsonSaveRawCut(out.file.items)
    /\ last' = [call EXCEPT !.interrupted = TRUE, !.raised = "Interrupted",
                            !.before = JsonLoad(file).books,
                            !.after = JsonLoad(out.file).books]
    /\ UNCHANGED <<db, backend, existing, cand, found, args, ret, csv>>

JsonInterrupted ==
    /\ backend = "json"
    /\ \/ \E b \in Pool :
            /\ Count < MaxBooks
            /\ JsonCut(JsonAdd(file, b), [NoCall EXCEPT !.op = "add", !.book = Some(b)])
       \/ \E b \in Pool :
            JsonCut(JsonUpdate(file, b), [NoCall EXCEPT !.op = "update", !.book = Some(b)])
       \/ \E id \in Ids :
            JsonCut(JsonDelete(file, id), [NoCall EXCEPT !.op = "delete", !.id = id])
       \/ \E books \in SeqsUpTo(SavePool, MaxCutSave) :
            JsonCut(JsonOutcome(JsonSave(books), TRUE, None, NoError),
                    [NoCall EXCEPT !.op = "save", !.books = books])

SqlCut(out, call) ==
    /\ out.committed
    /\ db' = SqlClose(db, [out EXCEPT !.committed = FALSE])
    /\ last' = [call EXCEPT !.interrupted = TRUE, !.raised = "Interrupted",
                            !.before = SqlLoad(db), !.after = SqlLoad(out.db)]
    /\ UNCHANGED <<file, backend, existing, cand, found, args, ret, csv>>

SqlInterrupted ==
    /\ backend = "sqlite"
    /\ \/ \E b \in Pool :
            /\ Count < MaxBooks
            /\ SqlCut(SqlAdd(db, b), [NoCall EXCEPT !.op = "add", !.book = Some(b)])
       \/ \E b \in Pool :
            SqlCut(SqlUpdate(db, b), [NoCall EXCEPT !.op = "update", !.book = Some(b)])
       \/ \E id \in Ids :
            /\ HasId(db, id)
            /\ SqlCut(SqlDelete(db, id), [NoCall EXCEPT !.op = "delete", !.id = id])
       \/ \E books \in SeqsUpTo(SavePool, MaxCutSave) :
            SqlCut(SqlSave(db, books), [NoCall EXCEPT !.op = "save", !.books = books])

\* The persisted document is damaged from outside the program.
DamageFile(kind) ==
    /\ backend = "json"
    /\ file.kind = "list"
    /\ file' = BrokenDoc(kind)
    /\ last' = [NoCall EXCEPT !.op = "damage"]
    /\ UNCHANGED <<db, backend, existing, cand, found, args, ret, csv>>

\* cmd_migrate_sqlite: sq.save(js.load()).
Migrate ==
    /\ backend = "json"
    /\ ~LoadRaises
    /\ db' = SqlClose(db, SqlSave(db, JsonLoad(file).books))
    /\ backend' = "migrated"
    /\ last' = [NoCall EXCEPT !.op = "migrate", !.books = JsonLoad(file).books,
                              !.ok = SqlSave(db, JsonLoad(file).books).ok,
                              !.raised = SqlSave(db, JsonLoad(file).books).raised,
                              !.before = JsonLoad(file).books]
    /\ UNCHANGED <<file, existing, cand, found, args, ret, csv>>

\* The calls of the storage contract, on either backend.
Operations ==
    \/ \E b \in Pool : JsonAddBook(b)
    \/ \E b \in Pool : SqlAddBook(b)
    \/ \E b \in Pool : JsonUpdateBook(b)
    \/ \E b \in Pool : SqlUpdateBook(b)
    \/ \E id \in Ids : JsonDeleteBook(id)
    \/ \E id \in Ids : SqlDeleteBook(id)
    \/ JsonResave
    \/ SqlResave

Next ==
    \/ Operations
    \/ \E books \in SeqsUpTo(SavePool, MaxSave) : JsonSaveBooks(books)
    \/ \E books \in SeqsUpTo(SavePool, MaxSave) : SqlSaveBooks(books)
    \/ Migrate

Spec == Init /\ [][Next]_vars

\* add, update, delete and save(load()) only, from the empty store.
NextOps == Operations

SpecOps == Init /\ [][NextOps]_vars

\* The storage contract with calls that are interrupted while writing.
NextCrash ==
    \/ Operations
    \/ JsonInterrupted
    \/ SqlInterrupted

SpecCrash == Init /\ [][NextCrash]_vars

\* The storage contract with a persisted document that gets damaged.
NextDamage ==
    \/ Operations
    \/ \E kind \in MalformedKinds : DamageFile(kind)

SpecDamage == Init /\ [][NextDamage]_vars

(***************************************************************************)
(* The Duplicate Detector as a pure function: both implementations applied *)
(* to the same stored books (in storage order, which is the rowid order of *)
(* the books table) and the same candidate.                                *)
(***************************************************************************)
DupContents ==
    {[title |-> t, author |-> a, year |-> y, genre |-> None, tags |-> <<>>,
      isbn |-> n, pages |-> None, quotes |-> <<>>, added_at |-> "T0"] :
        t \in {<<"T">>, <<"t">>, <<"YA">>, <<"ya">>}, a \in {<<"A">>, <<"B">>},
        y \in {None, Some(2000), Some(2001)},
        n \in {None, Some(<<"x">>), Some(<<"X">>)}}

\* The id of the i-th stored book: "e", "ee", ...
PosId(i) == [j \in 1..i |-> "e"]

\* The stored collections of at most n books.
ExistingSeqs(n) ==
    UNION {{[i \in 1..k |-> MkBook(PosId(i), f[i])] : f \in [1..k -> DupContents]} :
             k \in 0..n}

InitDup ==
    /\ backend = "json"
    /\ file = JsonSaveRaw(<<>>)
    /\ db = EmptyDb
    /\ last = NoCall
    /\ existing \in ExistingSeqs(MaxExisting)
    /\ cand \in {MkBook(<<"c">>, c) : c \in DupContents}
    /\ found = [done |-> FALSE, json |-> None, sql |-> None]
    /\ args = NoArgs
    /\ ret = NoRet
    /\ csv = NoCsv

FindDuplicates ==
    /\ ~found.done
    /\ found' = [done |-> TRUE,
                 json |-> JsonFindDuplicate(existing, cand),
                 sql |-> SqlFindDuplicate(SqlSave(EmptyDb, existing).db, cand)]
    /\ UNCHANGED <<file, db, backend, last, existing, cand, args, ret, csv>>

NextDup == FindDuplicates

SpecDup == InitDup /\ [][NextDup]_vars

(***************************************************************************)
(* The properties.  The Duplicate Detector of the specification, section   *)
(* 4.2, is stated here on its own, apart from the two implementations.     *)
(***************************************************************************)
\* Case-insensitive equality of two strings.
CiEqual(s, t) == Casefold(s) = Casefold(t)

NonEmpty(o) == o # None /\ OrEmpty(o) # <<>>

IsbnMatch(b, c) ==
    NonEmpty(b.isbn) /\ NonEmpty(c.isbn) /\ CiEqual(OrEmpty(b.isbn), OrEmpty(c.isbn))

YearMatch(b, c) == (b.year = None /\ c.year = None) \/ (b.year # None /\ b.year = c.year)

TitleAuthorYearMatch(b, c) ==
    CiEqual(b.title, c.title) /\ CiEqual(b.author, c.author) /\ YearMatch(b, c)

Collides(b, c) == IsbnMatch(b, c) \/ TitleAuthorYearMatch(b, c)

CollidesWithStored(books, c) == \E i \in 1..Len(books) : Collides(books[i], c)

\* The book argument of the latest call.
LastBook == CHOOSE b \in last.book : TRUE

StoredIn(books, id) == \E i \in 1..Len(books) : books[i].id = id

\* The books of a sequence other than those with the id, in order.
Without(books, id) ==
    LET Other(b) == b.id # id
    IN SelectSeq(books, Other)

Occurrences(books, b) == Cardinality({i \in 1..Len(books) : books[i] = b})

\* Two sequences hold the same records the same number of times.
SameRecords(s, t) ==
    /\ Len(s) = Len(t)
    /\ \A i \in 1..Len(s) : Occurrences(s, s[i]) = Occurrences(t, s[i])

\* C1: on either backend, after add(book) of a book that collides with no
\* stored record, the add was accepted and get(book.id) returns a record equal
\* to book in every field.
C1_AddThenGet ==
    (last.op = "add" /\ ~CollidesWithStored(last.before, LastBook))
        => /\ last.ok
           /\ last.raised = NoError
           /\ Get(LastBook.id) = Some(LastBook)

\* C2: add of a colliding book returns (False, a stored record it collides
\* with) and leaves the collection as it was; add of a non-colliding book
\* returns (True, None) and the collection is the previous one plus that book.
C2_AddContract ==
    last.op = "add"
        => IF CollidesWithStored(last.before, LastBook)
           THEN /\ ~last.ok
                /\ last.raised = NoError
                /\ \E i \in 1..Len(last.before) :
                      /\ last.dup = Some(last.before[i])
                      /\ Collides(last.before[i], LastBook)
                /\ Load = last.before
           ELSE /\ last.ok
                /\ last.raised = NoError
                /\ last.dup = None
                /\ SameRecords(Load, Append(last.before, LastBook))

\* C3: when the candidate's isbn is non-empty and some stored record has a
\* non-empty, case-insensitively equal isbn, find_duplicate returns the first
\* isbn-matching record in scan order, on both backends.
C3_IsbnPriority ==
    LET hits == {i \in 1..Len(existing) : IsbnMatch(existing[i], cand)}
        first == CHOOSE i \in hits : \A j \in hits : i <= j
    IN (found.done /\ hits # {})
          => /\ found.json = Some(existing[first])
             /\ found.sql = Some(existing[first])

\* C4: when no isbn match exists, find_duplicate reports a duplicate exactly
\* when some stored record equals the candidate on title and author, case-
\* insensitively, with matching years (both absent, or both present and equal).
C4_TitleAuthorYearRule ==
    (found.done /\ \A i \in 1..Len(existing) : ~IsbnMatch(existing[i], cand))
        => /\ found.json # None
                <=> \E i \in 1..Len(existing) : TitleAuthorYearMatch(existing[i], cand)
           /\ found.sql # None
                <=> \E i \in 1..Len(existing) : TitleAuthorYearMatch(existing[i], cand)

\* C5: no two stored records share an id, after any sequence of add, update,
\* delete and save(load()) from the empty store.
C5_IdsUnique ==
    \A i, j \in 1..Len(Load) : Load[i].id = Load[j].id => i = j

\* C6: update(book) of a stored id returns True, get(book.id) then returns a
\* record equal to book (in the database its tag and quote rows are exactly
\* book's tags and quotes), and the other records and the number of records
\* are unchanged; update of an id that is not stored returns False, raises
\* nothing and leaves the collection unchanged.
C6_UpdateContract ==
    last.op = "update"
        => IF StoredIn(last.before, LastBook.id)
           THEN /\ last.ok
                /\ last.raised = NoError
                /\ Get(LastBook.id) = Some(LastBook)
                /\ backend = "sqlite"
                     => /\ ChildTexts(db.tags, LastBook.id) = LastBook.tags
                        /\ ChildTexts(db.quotes, LastBook.id) = LastBook.quotes
                /\ Without(Load, LastBook.id) = Without(last.before, LastBook.id)
                /\ Len(Load) = Len(last.before)
           ELSE /\ ~last.ok
                /\ last.raised = NoError
                /\ Load = last.before

\* C7: delete(id) of a stored id returns True, get(id) is then absent, the
\* other records are unchanged and, in the database, no tag row and no quote
\* row with that book_id remains; delete of an id that is not stored returns
\* False, raises nothing and leaves the collection unchanged.
C7_DeleteContract ==
    last.op = "delete"
        => IF StoredIn(last.before, last.id)
           THEN /\ last.ok
                /\ last.raised = NoError
                /\ Get(last.id) = None
                /\ Load = Without(last.before, last.id)
                /\ backend = "sqlite"
                     => /\ ChildTexts(db.tags, last.id) = <<>>
                        /\ ChildTexts(db.quotes, last.id) = <<>>
           ELSE /\ ~last.ok
                /\ last.raised = NoError
                /\ Load = last.before

\* A delete in the database that removed a book which had tag and quote rows,
\* with another book left.
C7_Witness ==
    /\ last.op = "delete"
    /\ backend = "sqlite"
    /\ last.ok
    /\ Len(Load) >= 1
    /\ \E i \in 1..Len(last.before) :
          /\ last.before[i].id = last.id
          /\ last.before[i].tags # <<>>
          /\ last.before[i].quotes # <<>>

\* The books in the order of ORDER BY title, author.
InTitleAuthorOrder(books) ==
    \A i, j \in 1..Len(books) : i < j => ~RowLess(books[j], books[i])

\* C8: after save(S) a load() returns exactly the records of S, every field
\* equal and nothing else: in the order of S on the file backend, ordered by
\* title then author on the database; and after the migration the database
\* holds exactly the file store's records.
C8_SaveRoundTrip ==
    /\ last.op = "save"
          => /\ last.ok
             /\ last.raised = NoError
             /\ backend = "json" => Load = last.books
             /\ backend = "sqlite"
                  => SameRecords(Load, last.books) /\ InTitleAuthorOrder(Load)
    /\ last.op = "migrate"
          => /\ last.raised = NoError
             /\ SameRecords(SqlLoad(db), JsonLoad(file).books)

\* C9: after a mutating call that was interrupted between its first and its
\* last write step, load() gives either the complete collection from before
\* the call or the complete collection the call would have stored.
C9_Atomic ==
    last.interrupted => (Load = last.before \/ Load = last.after)

\* C10: on a persisted document that is not valid JSON, or is JSON but not a
\* list, load() of the file backend returns the empty collection without
\* raising, and get, update and delete report not-found.
C10_MalformedLoadsEmpty ==
    (backend = "json" /\ file.kind \in MalformedKinds)
        => /\ JsonLoad(file) = [raised |-> NoError, books |-> <<>>]
           /\ \A id \in Ids :
                 /\ JsonGet(file, id) = [raised |-> NoError, book |-> None]
                 /\ JsonDelete(file, id) = JsonOutcome(file, FALSE, None, NoError)
           /\ \A b \in Pool : JsonUpdate(file, b) = JsonOutcome(file, FALSE, None, NoError)

(***************************************************************************)
(* The filter/sort engine (filters.py): pure functions on a collection.    *)
(* `args` holds the arguments of a call and `ret` its result.              *)
(***************************************************************************)
MaxShelf == 3

\* filters._norm: (s or "").casefold().strip()
FilterNorm(o) == Strip(Casefold(OrEmpty(o)))

\* Python's `s in t` for two strings.
IsSubstring(s, t) ==
    \E i \in 0..(Len(t) - Len(s)) : SubSeq(t, i + 1, i + Len(s)) = s

\* sep.join(parts)
RECURSIVE JoinWith(_, _)
JoinWith(sep, parts) ==
    IF parts = <<>> THEN <<>>
    ELSE IF Len(parts) = 1 THEN parts[1]
    ELSE parts[1] \o sep \o JoinWith(sep, Tail(parts))

\* A field filter that compares by containment whatever the exact flag is.
FieldMatchSubstringOnly(crit, value, exact) ==
    LET c == FilterNorm(crit)
        v == FilterNorm(value)
    IN c # <<>> => IsSubstring(c, v)

\* One field filter of search.match: skipped when the normalised criterion is
\* empty, else equality (exact) or containment on the normalised field.
FieldMatch(crit, value, exact) ==
    LET c == FilterNorm(crit)
        v == FilterNorm(value)
    IN c # <<>> => IF exact THEN c = v ELSE IsSubstring(c, v)

\* search.match
Match(b, c) ==
    LET q == FilterNorm(c.query)
        tg == FilterNorm(c.tag)
        tagsNorm == [i \in 1..Len(b.tags) |-> FilterNorm(Some(b.tags[i]))]
    IN /\ ~(/\ q # <<>>
            /\ ~IsSubstring(q, FilterNorm(Some(b.author)))
            /\ ~IsSubstring(q, FilterNorm(Some(b.title))))
       /\ FieldMatch(c.author, Some(b.author), c.exact)
       /\ FieldMatch(c.title, Some(b.title), c.exact)
       /\ ~(c.year # None /\ b.year # c.year)
       /\ FieldMatch(c.genre, b.genre, c.exact)
       /\ tg # <<>>
            => IF c.exact THEN \E i \in 1..Len(tagsNorm) : tagsNorm[i] = tg
               ELSE IsSubstring(tg, JoinWith(<<" ">>, tagsNorm))
       /\ FieldMatch(c.isbn, b.isbn, c.exact)

\* search: [b for b in books if match(b)]
Search(books, c) ==
    LET Keep(b) == Match(b, c)
    IN SelectSeq(books, Keep)

\* The books the filter/sort engine is called with: two titles equal up to
\* letter case, a title with an inner space, absent and present years, genres
\* and isbns, and years whose decimal strings order against their values.
ShelfA ==
    [id |-> <<"a">>, title |-> <<"B">>, author |-> <<"a">>, year |-> Some(2000),
     genre |-> Some(<<"g">>), tags |-> << <<"k">>, <<"q">> >>, isbn |-> None,
     pages |-> None, quotes |-> <<>>, added_at |-> "T1"]

ShelfB ==
    [id |-> <<"a", "b">>, title |-> <<"b">>, author |-> <<"B">>, year |-> None,
     genre |-> None, tags |-> <<>>, isbn |-> Some(<<"x">>),
     pages |-> None, quotes |-> <<>>, added_at |-> "T0"]

ShelfC ==
    [id |-> <<"b">>, title |-> <<"A">>, author |-> <<"b">>, year |-> Some(900),
     genre |-> Some(<<"G">>), tags |-> << <<"K">> >>, isbn |-> Some(<<"X">>),
     pages |-> None, quotes |-> <<>>, added_at |-> "T0"]

ShelfD ==
    [id |-> <<"c">>, title |-> <<"a", " ", "b">>, author |-> <<"T">>, year |-> Some(2000),
     genre |-> None, tags |-> << <<"q">> >>, isbn |-> None,
     pages |-> None, quotes |-> <<>>, added_at |-> "T1"]

Shelf == {ShelfA, ShelfB, ShelfC, ShelfD}

\* The collections of at most n different books of the shelf, in any order.
Shelves(n) ==
    {s \in SeqsUpTo(Shelf, n) : \A i, j \in 1..Len(s) : s[i] = s[j] => i = j}

\* The criteria search is called with.
Criteria ==
    [query : {None, Some(<<"b">>), Some(<<"B", " ">>), Some(<<>>)},
     author : {None, Some(<<"b">>), Some(<<>>)},
     title : {None, Some(<<"a">>), Some(<<"b", " ">>)},
     year : {None, Some(2000)},
     genre : {None, Some(<<"g">>)},
     tag : {None, Some(<<"k">>), Some(<<"k", " ", "q">>)},
     isbn : {None, Some(<<"x">>)},
     exact : BOOLEAN]

InitPure ==
    /\ backend = "json"
    /\ file = JsonSaveRaw(<<>>)
    /\ db = EmptyDb
    /\ last = NoCall
    /\ existing = <<>>
    /\ cand = MkBook(<<"a">>, ContentA)
    /\ found = [done |-> FALSE, json |-> None, sql |-> None]
    /\ ret = NoRet
    /\ csv = NoCsv

InitSearch ==
    /\ InitPure
    /\ args \in {[fn |-> "search", books |-> s, criteria |-> c] :
                   s \in Shelves(MaxShelf), c \in Criteria}

SearchCall ==
    /\ args.fn = "search"
    /\ ~ret.done
    /\ ret' = [done |-> TRUE, raised |-> NoError,
               books |-> Search(args.books, args.criteria)]
    /\ UNCHANGED <<file, db, backend, last, existing, cand, found, args, csv>>

NextSearch == SearchCall

SpecSearch == InitSearch /\ [][NextSearch]_vars

\* The matching rule of the specification, section 4.3, the strings compared
\* case-folded, and trimmed first when trim is set.
CriterionHolds(trim, b, c) ==
    LET Prep(s) == IF trim THEN Casefold(Strip(s)) ELSE Casefold(s)
        P(o) == Prep(OrEmpty(o))
        tags == [i \in 1..Len(b.tags) |-> Prep(b.tags[i])]
        Field(crit, value) ==
            IF c.exact THEN P(crit) = P(value) ELSE IsSubstring(P(crit), P(value))
    IN /\ c.query # None
            => \/ IsSubstring(P(c.query), Prep(b.title))
               \/ IsSubstring(P(c.query), Prep(b.author))
       /\ c.author # None => Field(c.author, Some(b.author))
       /\ c.title # None => Field(c.title, Some(b.title))
       /\ c.genre # None => Field(c.genre, b.genre)
       /\ c.isbn # None => Field(c.isbn, b.isbn)
       /\ c.tag # None
            => IF c.exact THEN \E i \in 1..Len(tags) : tags[i] = P(c.tag)
               ELSE IsSubstring(P(c.tag), JoinWith(<<" ">>, tags))
       /\ c.year # None => b.year = c.year

\* A string criterion that is empty once trimmed is taken as not supplied.
Supplied(c) ==
    LET Drop(o) == IF Strip(OrEmpty(o)) = <<>> THEN None ELSE o
    IN [query |-> Drop(c.query), author |-> Drop(c.author), title |-> Drop(c.title),
        year |-> c.year, genre |-> Drop(c.genre), tag |-> Drop(c.tag),
        isbn |-> Drop(c.isbn), exact |-> c.exact]

Digit(d) ==
    CASE d = 0 -> "0" [] d = 1 -> "1" [] d = 2 -> "2" [] d = 3 -> "3" [] d = 4 -> "4"
      [] d = 5 -> "5" [] d = 6 -> "6" [] d = 7 -> "7" [] d = 8 -> "8" [] OTHER -> "9"

RECURSIVE IntToStr(_)
IntToStr(n) == IF n < 10 THEN <<Digit(n)>> ELSE Append(IntToStr(n \div 10), Digit(n % 10))

\* The characters of a timestamp.
StampChars(t) ==
    CASE t = "T0" -> <<"T", "0">> [] t = "T1" -> <<"T", "1">> [] OTHER -> <<"2">>

SortFields == {"title", "author", "year", "genre", "added_at"}

\* str(getattr(b, field)), or None when the attribute is None.
FieldText(b, field) ==
    CASE field = "title" -> Some(b.title)
      [] field = "author" -> Some(b.author)
      [] field = "year" -> IF b.year = None THEN None
                           ELSE Some(IntToStr(CHOOSE y \in b.year : TRUE))
      [] field = "genre" -> b.genre
      [] OTHER -> Some(StampChars(b.added_at))

\* A key part that puts None below every concrete value.
KeyPartNoneFirst(v) ==
    IF v = None THEN [rank |-> 0, text |-> <<>>]
    ELSE [rank |-> 1, text |-> Casefold(OrEmpty(v))]

\* keyfunc.norm: (1, '') if v is None else (0, str(v).casefold())
KeyPart(v) ==
    IF v = None THEN [rank |-> 1, text |-> <<>>]
    ELSE [rank |-> 0, text |-> Casefold(OrEmpty(v))]

\* The field names sort_books works with: `by` falls back to title, a
\* secondary that is set and not valid becomes None.
PrimaryField(by) == IF by \in SortFields THEN by ELSE "title"

SecondaryField(secondary) ==
    IF secondary # None /\ OrEmpty(secondary) # "" /\ OrEmpty(secondary) \notin SortFields
    THEN None ELSE secondary

\* keyfunc: a tuple of one or two key parts.
KeyFunc(b, by, secondary) ==
    LET primary == FieldText(b, by)
        secondaryVal == IF secondary # None /\ OrEmpty(secondary) # ""
                        THEN FieldText(b, OrEmpty(secondary)) ELSE None
    IN IF secondary # None THEN <<KeyPart(primary), KeyPart(secondaryVal)>>
       ELSE <<KeyPart(primary)>>

\* Python's order on (int, str) pairs and on tuples of them.
PartLess(p, q) == p.rank < q.rank \/ (p.rank = q.rank /\ StrLess(p.text, q.text))

RECURSIVE KeyLess(_, _)
KeyLess(k, l) ==
    IF l = <<>> THEN FALSE
    ELSE IF k = <<>> THEN TRUE
    ELSE IF Head(k) # Head(l) THEN PartLess(Head(k), Head(l))
    ELSE KeyLess(Tail(k), Tail(l))

\* A descending sort obtained by reversing the ascending one.
RECURSIVE SortedReversing(_, _)
SortedReversing(keyed, reverse) ==
    LET asc == SortedReversing(keyed, FALSE)
    IN IF reverse THEN [i \in 1..Len(asc) |-> asc[Len(asc) + 1 - i]]
       ELSE IF keyed = <<>> THEN <<>>
       ELSE LET rest == SortedReversing(SubSeq(keyed, 1, Len(keyed) - 1), FALSE)
                x == keyed[Len(keyed)]
                k == Cardinality({i \in 1..Len(rest) : ~KeyLess(x.key, rest[i].key)})
            IN SubSeq(rest, 1, k) \o <<x>> \o SubSeq(rest, k + 1, Len(rest))

\* sorted(..., key=keyfunc, reverse=reverse) on the items paired with their
\* keys: ascending by key, or descending when reverse is set, items with equal
\* keys staying in their original order.
RECURSIVE Sorted(_, _)
Sorted(keyed, reverse) ==
    IF keyed = <<>> THEN <<>>
    ELSE LET rest == Sorted(SubSeq(keyed, 1, Len(keyed) - 1), reverse)
             x == keyed[Len(keyed)]
             Before(y) == IF reverse THEN ~KeyLess(y.key, x.key)
                          ELSE ~KeyLess(x.key, y.key)
             k == Cardinality({i \in 1..Len(rest) : Before(rest[i])})
         IN SubSeq(rest, 1, k) \o <<x>> \o SubSeq(rest, k + 1, Len(rest))

\* sort_books
SortBooks(books, by, reverse, secondary) ==
    LET keyed == [i \in 1..Len(books) |->
                    [key |-> KeyFunc(books[i], PrimaryField(by), SecondaryField(secondary)),
                     item |-> books[i]]]
        sorted == Sorted(keyed, reverse)
    IN [i \in 1..Len(sorted) |-> sorted[i].item]

SortBys == SortFields \cup {"pages"}

SortSecondaries == {None, Some("author"), Some("year"), Some("pages"), Some("")}

InitSort ==
    /\ InitPure
    /\ args \in {[fn |-> "sort_books", books |-> s, by |-> by, reverse |-> r,
                  secondary |-> sec] :
                   s \in Shelves(MaxShelf), by \in SortBys, r \in BOOLEAN,
                   sec \in SortSecondaries}

SortCall ==
    /\ args.fn = "sort_books"
    /\ ~ret.done
    /\ ret' = [done |-> TRUE, raised |-> NoError,
               books |-> SortBooks(args.books, args.by, args.reverse, args.secondary)]
    /\ UNCHANGED <<file, db, backend, last, existing, cand, found, args, csv>>

NextSort == SortCall

SpecSort == InitSort /\ [][NextSort]_vars

\* The value a record is sorted on: the primary field, title standing in for a
\* field name that is not allowed.
SortValue(b) == FieldText(b, IF args.by \in SortFields THEN args.by ELSE "title")

\* C12 as stated: with reverse=False every record whose sort field is None
\* comes before every record whose sort field has a value; with reverse=True
\* every such record comes after them.
C12_NoneFirst ==
    (args.fn = "sort_books" /\ ret.done)
        => \A i, j \in 1..Len(ret.books) :
              (SortValue(ret.books[i]) = None /\ SortValue(ret.books[j]) # None)
                  => IF args.reverse THEN j < i ELSE i < j

\* C12 as amended: with reverse=False every record whose sort field is None
\* comes after every record whose sort field has a value; with reverse=True
\* every such record comes before them.
C12_NoneLast ==
    (args.fn = "sort_books" /\ ret.done)
        => \A i, j \in 1..Len(ret.books) :
              (SortValue(ret.books[i]) = None /\ SortValue(ret.books[j]) # None)
                  => IF args.reverse THEN i < j ELSE j < i

\* A sort by year, not reversed, of a collection that starts with a record
\* without a year and also holds two records with one.
C12_Witness ==
    /\ args.fn = "sort_books"
    /\ ret.done
    /\ args.by = "year"
    /\ ~args.reverse
    /\ Len(args.books) = 3
    /\ args.books[1].year = None
    /\ ret.books[3].year = None

\* The position of a record in a sequence of different records.
PositionIn(books, b) == CHOOSE i \in 1..Len(books) : books[i] = b

\* The key sort_books orders by: the primary field's key part, then the
\* secondary field's when a secondary field among the allowed ones is given.
OrderKey(b) ==
    <<KeyPart(SortValue(b))>>
        \o (IF args.secondary # None /\ OrEmpty(args.secondary) \in SortFields
            THEN <<KeyPart(FieldText(b, OrEmpty(args.secondary)))>> ELSE <<>>)

\* C13: sort_books raises nothing and returns a permutation of its input that
\* is ordered by the primary key, then the secondary key (descending when
\* reverse is set), records with equal keys in input order for either value of
\* reverse; a primary field that is not allowed sorts as title does.
C13_SortContract ==
    (args.fn = "sort_books" /\ ret.done)
        => /\ ret.raised = NoError
           /\ SameRecords(ret.books, args.books)
           /\ \A i, j \in 1..Len(ret.books) :
                 i < j => /\ IF args.reverse
                             THEN ~KeyLess(OrderKey(ret.books[i]), OrderKey(ret.books[j]))
                             ELSE ~KeyLess(OrderKey(ret.books[j]), OrderKey(ret.books[i]))
                          /\ OrderKey(ret.books[i]) = OrderKey(ret.books[j])
                               => PositionIn(args.books, ret.books[i])
                                    < PositionIn(args.books, ret.books[j])
           /\ args.by \notin SortFields
                => ret.books = SortBooks(args.books, "title", args.reverse, args.secondary)

\* A reversed sort by title of three records, two of which have equal keys and
\* come first in the result, in their input order.
C13_Witness ==
    /\ args.fn = "sort_books"
    /\ ret.done
    /\ args.reverse
    /\ args.by = "title"
    /\ args.secondary = None
    /\ Len(args.books) = 3
    /\ OrderKey(ret.books[1]) = OrderKey(ret.books[2])
    /\ ret.books[3] = args.books[1]

(***************************************************************************)
(* The identifier resolver (commands.py).  A call's result is the value    *)
(* returned and what was printed: nothing, the not-found message, or the   *)
(* ambiguity message followed by one line per matching record.             *)
(***************************************************************************)
MaxInput == 5

\* The length from which _resolve_id takes its input for a complete id.
CanonicalIdLen == 36

IsBracket(c) == c \in {"[", "]", "{", "}", "(", ")"}

RECURSIVE LStripBrackets(_)
LStripBrackets(s) ==
    IF s # <<>> /\ IsBracket(Head(s)) THEN LStripBrackets(Tail(s)) ELSE s

RECURSIVE RStripBrackets(_)
RStripBrackets(s) ==
    IF s # <<>> /\ IsBracket(s[Len(s)])
    THEN RStripBrackets(SubSeq(s, 1, Len(s) - 1)) ELSE s

\* A cleaning that takes one bracket character off each end.
CleanIdOneLayer(s) ==
    LET t == Strip(s)
        u == IF t # <<>> /\ IsBracket(Head(t)) THEN Tail(t) ELSE t
    IN IF u # <<>> /\ IsBracket(u[Len(u)]) THEN SubSeq(u, 1, Len(u) - 1) ELSE u

\* _clean_id: (s or '').strip().strip('[]{}()')
CleanId(s) == RStripBrackets(LStripBrackets(Strip(s)))

\* str.startswith
StartsWith(s, prefix) ==
    Len(prefix) <= Len(s) /\ SubSeq(s, 1, Len(prefix)) = prefix

\* _resolve_id on the loaded collection.
ResolveId(books, userId) ==
    LET wanted == CleanId(userId)
        IsMatch(b) == StartsWith(b.id, wanted)
        matches == SelectSeq(books, IsMatch)
    IN IF Len(wanted) >= CanonicalIdLen
       THEN [value |-> Some(wanted), printed |-> "nothing", listed |-> <<>>]
       ELSE IF Len(matches) = 1
       THEN [value |-> Some(matches[1].id), printed |-> "nothing", listed |-> <<>>]
       ELSE IF matches = <<>>
       THEN [value |-> None, printed |-> "not found", listed |-> <<>>]
       ELSE [value |-> None, printed |-> "ambiguous",
             listed |-> [i \in 1..Len(matches) |->
                           [id |-> matches[i].id, title |-> matches[i].title,
                            author |-> matches[i].author]]]

\* The strings _clean_id is called with.
InputChars == {" ", "[", "]", "(", "a"}

InitClean ==
    /\ InitPure
    /\ args \in {[fn |-> "clean_id", s |-> s] : s \in SeqsUpTo(InputChars, MaxInput)}

CleanCall ==
    /\ args.fn = "clean_id"
    /\ ~ret.done
    /\ ret' = [done |-> TRUE, raised |-> NoError, value |-> CleanId(args.s)]
    /\ UNCHANGED <<file, db, backend, last, existing, cand, found, args, csv>>

NextClean == CleanCall

SpecClean == InitClean /\ [][NextClean]_vars

\* An id of the canonical length.
LongId(c) == [i \in 1..CanonicalIdLen |-> c]

\* The collections _resolve_id is called on: ids that are prefixes of one
\* another, an id of the canonical length, and one id stored twice.
ResolveBooks ==
    {MkBook(<<"a">>, ContentB), MkBook(<<"a", "b">>, ContentA),
     MkBook(<<"b">>, ContentC), MkBook(LongId("a"), ContentD),
     MkBook(<<"a">>, ContentC)}

ResolveShelves(n) ==
    {s \in SeqsUpTo(ResolveBooks, n) : \A i, j \in 1..Len(s) : s[i] = s[j] => i = j}

\* What the user types for an id.
ResolveInputs ==
    {<<>>, <<"a">>, <<"a", "b">>, <<"b">>, <<"c">>, <<" ", "[", "a", "b", "]">>,
     <<"(", "(", "b", ")", ")">>, LongId("a"), LongId("c"),
     <<"[">> \o LongId("a") \o <<"]">>, LongId("a") \o <<"b">>,
     SubSeq(LongId("a"), 1, CanonicalIdLen - 1)}

InitResolve ==
    /\ InitPure
    /\ args \in {[fn |-> "resolve_id", books |-> s, user_id |-> u] :
                   s \in ResolveShelves(MaxShelf), u \in ResolveInputs}

ResolveCall ==
    /\ args.fn = "resolve_id"
    /\ ~ret.done
    /\ ret' = [done |-> TRUE, raised |-> NoError]
                 @@ ResolveId(args.books, args.user_id)
    /\ UNCHANGED <<file, db, backend, last, existing, cand, found, args, csv>>

NextResolve == ResolveCall

SpecResolve == InitResolve /\ [][NextResolve]_vars

\* The records of the collection whose id starts with the cleaned input.
Candidates ==
    LET Starts(b) == StartsWith(b.id, CleanId(args.user_id))
    IN SelectSeq(args.books, Starts)

\* What a call returns when no stored id starts with the input.
NotFoundValue == ResolveId(<<>>, <<"c">>).value

\* C14: a cleaned input of 36 or more characters is returned as it is; a
\* shorter one resolves to the full id of the one record whose id starts with
\* it, to not-found when there is none, and, when there are several, to a
\* value that holds no id and differs from the not-found value, the ids of
\* the matching records being listed.
C14_ResolveContract ==
    (args.fn = "resolve_id" /\ ret.done)
        => IF Len(CleanId(args.user_id)) >= CanonicalIdLen
           THEN ret.value = Some(CleanId(args.user_id))
           ELSE /\ Len(Candidates) = 1 => ret.value = Some(Candidates[1].id)
                /\ Len(Candidates) = 0 => ret.value = NotFoundValue
                /\ Len(Candidates) >= 2
                     => /\ ret.value # NotFoundValue
                        /\ \A i \in 1..Len(Candidates) : ret.value # Some(Candidates[i].id)
                        /\ [i \in 1..Len(ret.listed) |-> ret.listed[i].id]
                             = [i \in 1..Len(Candidates) |-> Candidates[i].id]

\* C15 as stated: identifier cleaning removes the surrounding whitespace and
\* one layer of brackets, so that of two or more nested brackets only the
\* outermost is removed and the inner ones stay in the cleaned identifier.
C15_SingleLayer ==
    (args.fn = "clean_id" /\ ret.done) => ret.value = CleanIdOneLayer(args.s)

\* C15 as amended: identifier cleaning removes the surrounding whitespace and
\* then every bracket character at the start and at the end, however many
\* there are: the result is the stretch of the trimmed input from its first to
\* its last character that is not a bracket.
C15_AllLayers ==
    (args.fn = "clean_id" /\ ret.done)
        => LET t == Strip(args.s)
           IN \E i \in 0..Len(t) : \E j \in i..Len(t) :
                 /\ ret.value = SubSeq(t, i + 1, j)
                 /\ \A k \in 1..i : IsBracket(t[k])
                 /\ \A k \in (j + 1)..Len(t) : IsBracket(t[k])
                 /\ ret.value # <<>>
                      => ~IsBracket(ret.value[1]) /\ ~IsBracket(ret.value[Len(ret.value)])

\* The input [[a]] cleaned to a.
C15_Witness ==
    /\ args.fn = "clean_id"
    /\ ret.done
    /\ args.s = <<"[", "[", "a", "]", "]">>
    /\ ret.value = <<"a">>

(***************************************************************************)
(* The CSV bridge (export_csv and import_csv of both backends).  A CSV     *)
(* file is the sequence of its data rows, a row the record of its ten      *)
(* cells; every cell is text.  csv.DictWriter writes None as the empty     *)
(* cell and an int as its decimal digits, and csv.DictReader gives every   *)
(* cell back as a str.                                                     *)
(***************************************************************************)
MaxRows == 2

\* sep.split: the pieces of s between the occurrences of the character sep.
RECURSIVE SplitOn(_, _)
SplitOn(s, sep) ==
    LET at == {i \in 1..Len(s) : s[i] = sep}
        first == CHOOSE i \in at : \A j \in at : i <= j
    IN IF at = {} THEN <<s>>
       ELSE <<SubSeq(s, 1, first - 1)>> \o SplitOn(SubSeq(s, first + 1, Len(s)), sep)

\* [t for t in cell.split(sep) if t]
SplitCell(cell, sep) ==
    LET NotEmpty(t) == t # <<>>
    IN SelectSeq(SplitOn(cell, sep), NotEmpty)

IsDigit(c) == c \in {"0", "1", "2", "3", "4", "5", "6", "7", "8", "9"}

DigitValue(c) == CHOOSE d \in 0..9 : Digit(d) = c

RECURSIVE StrToInt(_)
StrToInt(s) ==
    IF s = <<>> THEN 0
    ELSE 10 * StrToInt(SubSeq(s, 1, Len(s) - 1)) + DigitValue(s[Len(s)])

\* int(cell) if cell else None: an empty cell is None; int() takes decimal
\* digits with whitespace around them and raises ValueError on other text.
CellToInt(cell) ==
    LET t == Strip(cell)
    IN IF cell = <<>> THEN [raised |-> NoError, value |-> None]
       ELSE IF t # <<>> /\ \A i \in 1..Len(t) : IsDigit(t[i])
            THEN [raised |-> NoError, value |-> Some(StrToInt(t))]
       ELSE [raised |-> "ValueError", value |-> None]

\* The row export_csv writes for a book.
ExportRow(b) ==
    [id |-> b.id, title |-> b.title, author |-> b.author,
     year |-> IF b.year = None THEN <<>> ELSE IntToStr(CHOOSE y \in b.year : TRUE),
     genre |-> OrEmpty(b.genre),
     tags |-> JoinWith(<<";">>, b.tags),
     isbn |-> OrEmpty(b.isbn),
     pages |-> IF b.pages = None THEN <<>> ELSE IntToStr(CHOOSE n \in b.pages : TRUE),
     quotes |-> JoinWith(<<"|">>, b.quotes),
     added_at |-> b.added_at]

\* export_csv, the same code in Storage and SqliteStorage: one row per book
\* of load(), in its order.
ExportRows(books) == [i \in 1..Len(books) |-> ExportRow(books[i])]

\* The book import_csv makes of a row, or the ValueError of int().
RowToBook(row) ==
    LET year == CellToInt(row.year)
        pages == CellToInt(row.pages)
    IN IF year.raised # NoError THEN [raised |-> year.raised, book |-> None]
       ELSE IF pages.raised # NoError THEN [raised |-> pages.raised, book |-> None]
       ELSE [raised |-> NoError,
             book |-> Some(FromDict(
                 [id |-> row.id, title |-> row.title, author |-> row.author,
                  year |-> year.value, genre |-> Some(row.genre),
                  tags |-> SplitCell(row.tags, ";"), isbn |-> Some(row.isbn),
                  pages |-> pages.value, quotes |-> SplitCell(row.quotes, "|"),
                  added_at |-> row.added_at]))]

\* The loop of Storage.import_csv with the Duplicate Detector asked before
\* the id is looked at.
RECURSIVE JsonImportLoopDetectFirst(_, _)
JsonImportLoopDetectFirst(st, rows) ==
    IF rows = <<>> THEN [raised |-> NoError, books |-> st.books, count |-> st.count]
    ELSE LET parsed == RowToBook(Head(rows))
             book == CHOOSE b \in parsed.book : TRUE
             Other(b) == b.id # book.id
         IN IF parsed.raised # NoError
            THEN [raised |-> parsed.raised, books |-> st.books, count |-> st.count]
            ELSE IF JsonFindDuplicate(SelectSeq(st.books, Other), book) # None
            THEN JsonImportLoopDetectFirst(st, Tail(rows))
            ELSE IF book.id \in st.seen
            THEN JsonImportLoopDetectFirst(
                     [books |-> Append(SelectSeq(st.books, Other), book),
                      seen |-> st.seen, count |-> st.count + 1], Tail(rows))
            ELSE JsonImportLoopDetectFirst(
                     [books |-> Append(st.books, book),
                      seen |-> st.seen \cup {book.id}, count |-> st.count + 1], Tail(rows))

\* The loop of Storage.import_csv over the rows that are left: st holds the
\* local variables books, seen_ids and count.
RECURSIVE JsonImportLoop(_, _)
JsonImportLoop(st, rows) ==
    IF rows = <<>> THEN [raised |-> NoError, books |-> st.books, count |-> st.count]
    ELSE LET parsed == RowToBook(Head(rows))
             book == CHOOSE b \in parsed.book : TRUE
             Other(b) == b.id # book.id
         IN IF parsed.raised # NoError
            THEN [raised |-> parsed.raised, books |-> st.books, count |-> st.count]
            ELSE IF book.id \in st.seen
            THEN JsonImportLoop(
                     [books |-> Append(SelectSeq(st.books, Other), book),
                      seen |-> st.seen, count |-> st.count + 1], Tail(rows))
            ELSE IF JsonFindDuplicate(st.books, book) # None
            THEN JsonImportLoop(st, Tail(rows))
            ELSE JsonImportLoop(
                     [books |-> Append(st.books, book),
                      seen |-> st.seen \cup {book.id}, count |-> st.count + 1], Tail(rows))

\* Storage.import_csv: the collection is saved once, after the last row.
JsonImportCsv(f, rows) ==
    LET ld == JsonLoad(f)
        res == JsonImportLoop(
                   [books |-> ld.books,
                    seen |-> {ld.books[i].id : i \in 1..Len(ld.books)}, count |-> 0], rows)
    IN IF ld.raised # NoError THEN [file |-> f, raised |-> ld.raised, count |-> 0]
       ELSE IF res.raised # NoError THEN [file |-> f, raised |-> res.raised, count |-> 0]
       ELSE [file |-> JsonSave(res.books), raised |-> NoError, count |-> res.count]

\* The rows SqliteStorage.import_csv inserts for a list of tags or quotes:
\* every entry, blank ones too.
ChildRowsAll(id, texts) == [i \in 1..Len(texts) |-> [book_id |-> id, text |-> texts[i]]]

\* The loop of SqliteStorage.import_csv over the rows that are left, on the
\* connection's view d of the tables.
RECURSIVE SqlImportLoop(_, _, _)
SqlImportLoop(d, count, rows) ==
    IF rows = <<>> THEN [raised |-> NoError, db |-> d, count |-> count, committed |-> TRUE]
    ELSE LET parsed == RowToBook(Head(rows))
             b == CHOOSE x \in parsed.book : TRUE
         IN IF parsed.raised # NoError
            THEN [raised |-> parsed.raised, db |-> d, count |-> count, committed |-> FALSE]
            ELSE IF HasId(d, b.id)
            THEN SqlImportLoop(
                     [books |-> [i \in 1..Len(d.books) |->
                                    IF d.books[i].id = b.id THEN BookRow(b) ELSE d.books[i]],
                      tags |-> DropChildren(d.tags, b.id) \o ChildRowsAll(b.id, b.tags),
                      quotes |-> DropChildren(d.quotes, b.id) \o ChildRowsAll(b.id, b.quotes)],
                     count + 1, Tail(rows))
            ELSE IF SqlFindDuplicate(d, b) # None
            THEN SqlImportLoop(d, count, Tail(rows))
            ELSE SqlImportLoop(
                     [books |-> Append(d.books, BookRow(b)),
                      tags |-> d.tags \o ChildRowsAll(b.id, b.tags),
                      quotes |-> d.quotes \o ChildRowsAll(b.id, b.quotes)],
                     count + 1, Tail(rows))

\* SqliteStorage.import_csv: one transaction, committed after the last row.
SqlImportCsv(d, rows) ==
    LET res == SqlImportLoop(d, 0, rows)
    IN [db |-> SqlClose(d, res), raised |-> res.raised,
        count |-> IF res.raised = NoError THEN res.count ELSE 0]

\* The rows of the CSV files import_csv is given: a plain row, a row that
\* collides with it on title, author and year, a row with its id, two rows
\* whose titles differ in the case of a Cyrillic letter, and a row whose year
\* is not a number.
CsvRow(id, title, author, year, isbn) ==
    [id |-> id, title |-> title, author |-> author, year |-> year, genre |-> <<"g">>,
     tags |-> <<"k", ";", "q">>, isbn |-> isbn, pages |-> <<>>, quotes |-> <<"q">>,
     added_at |-> "T0"]

CsvRowPool ==
    {CsvRow(<<"a">>, <<"T">>, <<"A">>, <<"2", "0", "0", "0">>, <<"x">>),
     CsvRow(<<"a", "b">>, <<"t">>, <<"a">>, <<"2", "0", "0", "0">>, <<>>),
     CsvRow(<<"a">>, <<"U">>, <<"B">>, <<>>, <<>>),
     CsvRow(<<"b">>, <<"YA">>, <<"A">>, <<>>, <<>>),
     CsvRow(<<"c">>, <<"ya">>, <<"A">>, <<>>, <<>>),
     CsvRow(<<"b">>, <<"X">>, <<"A">>, <<"a", "b">>, <<>>)}

\* export_csv(path) on the store in use.
JsonExportCsv ==
    /\ backend = "json"
    /\ ~LoadRaises
    /\ csv' = [written |-> TRUE, rows |-> ExportRows(JsonLoad(file).books)]
    /\ last' = [NoCall EXCEPT !.op = "export", !.books = JsonLoad(file).books,
                              !.count = Len(JsonLoad(file).books), !.ok = TRUE,
                              !.before = JsonLoad(file).books]
    /\ UNCHANGED <<file, db, backend, existing, cand, found, args, ret>>

SqlExportCsv ==
    /\ backend = "sqlite"
    /\ csv' = [written |-> TRUE, rows |-> ExportRows(SqlLoad(db))]
    /\ last' = [NoCall EXCEPT !.op = "export", !.books = SqlLoad(db),
                              !.count = Len(SqlLoad(db)), !.ok = TRUE,
                              !.before = SqlLoad(db)]
    /\ UNCHANGED <<file, db, backend, existing, cand, found, args, ret>>

\* import_csv(path) of the file just exported, on a new store of the same
\* class at another path, which becomes the store in use.  `books` keeps the
\* collection that was exported.
JsonImportExported ==
    /\ backend = "json"
    /\ last.op = "export"
    /\ LET out == JsonImportCsv(JsonSaveRaw(<<>>), csv.rows)
       IN /\ file' = out.file
          /\ last' = [NoCall EXCEPT !.op = "reimport", !.books = last.books,
                                    !.count = out.count, !.raised = out.raised,
                                    !.ok = out.raised = NoError]
    /\ UNCHANGED <<db, backend, existing, cand, found, args, ret, csv>>

SqlImportExported ==
    /\ backend = "sqlite"
    /\ last.op = "export"
    /\ LET out == SqlImportCsv(EmptyDb, csv.rows)
       IN /\ db' = out.db
          /\ last' = [NoCall EXCEPT !.op = "reimport", !.books = last.books,
                                    !.count = out.count, !.raised = out.raised,
                                    !.ok = out.raised = NoError]
    /\ UNCHANGED <<file, backend, existing, cand, found, args, ret, csv>>

\* import_csv(path) of a file with the given rows, on the store in use.
JsonImportFile(rows) ==
    /\ backend = "json"
    /\ ~LoadRaises
    /\ Count < MaxBooks
    /\ csv' = [written |-> TRUE, rows |-> rows]
    /\ LET out == JsonImportCsv(file, rows)
       IN /\ file' = out.file
          /\ last' = [NoCall EXCEPT !.op = "import", !.count = out.count,
                                    !.raised = out.raised, !.ok = out.raised = NoError,
                                    !.before = JsonLoad(file).books]
    /\ UNCHANGED <<db, backend, existing, cand, found, args, ret>>

SqlImportFile(rows) ==
    /\ backend = "sqlite"
    /\ Count < MaxBooks
    /\ csv' = [written |-> TRUE, rows |-> rows]
    /\ LET out == SqlImportCsv(db, rows)
       IN /\ db' = out.db
          /\ last' = [NoCall EXCEPT !.op = "import", !.count = out.count,
                                    !.raised = out.raised, !.ok = out.raised = NoError,
                                    !.before = SqlLoad(db)]
    /\ UNCHANGED <<file, backend, existing, cand, found, args, ret>>

\* Stores filled by add, exported, and the exported file imported into a new
\* store.
NextCsvRoundTrip ==
    \/ \E b \in Pool : JsonAddBook(b)
    \/ \E b \in Pool : SqlAddBook(b)
    \/ JsonExportCsv
    \/ SqlExportCsv
    \/ JsonImportExported
    \/ SqlImportExported

SpecCsvRoundTrip == Init /\ [][NextCsvRoundTrip]_vars

\* Stores filled by importing CSV files.
NextCsvImport ==
    \/ \E rows \in SeqsUpTo(CsvRowPool, MaxRows) : JsonImportFile(rows)
    \/ \E rows \in SeqsUpTo(CsvRowPool, MaxRows) : SqlImportFile(rows)

SpecCsvImport == Init /\ [][NextCsvImport]_vars

\* C16: export_csv followed by import_csv of that file into an empty store
\* raises nothing and gives a collection equal to the exported one, element
\* for element: every field equal, an absent field absent, tags and quotes in
\* the same order.
C16_CsvRoundTrip ==
    last.op = "reimport" => (last.raised = NoError /\ Load = last.books)

\* A cell of year or pages that int() accepts, or that is empty.
NumberCellOk(cell) == CellToInt(cell).raised = NoError

RowOk(row) == NumberCellOk(row.year) /\ NumberCellOk(row.pages)

\* The record a row stands for, a year or pages cell that is not a number
\* counting as an empty one.
RowRecord(row) ==
    LET coerced == [row EXCEPT !.year = IF NumberCellOk(@) THEN @ ELSE <<>>,
                               !.pages = IF NumberCellOk(@) THEN @ ELSE <<>>]
    IN CHOOSE b \in RowToBook(coerced).book : TRUE

\* The merge policy of the specification, section 4.5, row after row: the
\* collection and the count it ends with.
RECURSIVE MergePolicy(_, _, _)
MergePolicy(books, count, rows) ==
    IF rows = <<>> THEN [books |-> books, count |-> count]
    ELSE LET r == RowRecord(Head(rows))
             hits == {i \in 1..Len(books) : books[i].id = r.id}
             first == CHOOSE i \in hits : \A j \in hits : i <= j
         IN IF hits # {}
            THEN MergePolicy([books EXCEPT ![first] = r], count + 1, Tail(rows))
            ELSE IF CollidesWithStored(books, r)
            THEN MergePolicy(books, count, Tail(rows))
            ELSE MergePolicy(Append(books, r), count + 1, Tail(rows))

\* The import raised nothing, returned the count of the merge policy and
\* left the records the merge policy gives.
ImportFollowsPolicy ==
    LET expected == MergePolicy(last.before, 0, csv.rows)
    IN /\ last.raised = NoError
       /\ last.count = expected.count
       /\ SameRecords(Load, expected.books)

\* C17: import_csv applies to each row in file order, against the collection
\* as the rows before left it: replace the stored record with the row's id,
\* else skip a row that collides under the Duplicate Detector, else insert;
\* it returns the number of rows that replaced or inserted, and the stored
\* collection changes by those replacements and insertions only.
C17_ImportPolicy ==
    (last.op = "import" /\ \A i \in 1..Len(csv.rows) : RowOk(csv.rows[i]))
        => ImportFollowsPolicy

\* C18: a row whose year or pages cell is not empty and not an integer does
\* not make import_csv fail: the field is taken as absent, the row goes
\* through the merge policy and the other rows are imported.
C18_BadNumberCoerced ==
    (last.op = "import" /\ \E i \in 1..Len(csv.rows) : ~RowOk(csv.rows[i]))
        => ImportFollowsPolicy

(***************************************************************************)
(* The quote commands of commands.py: cmd_add_quote and cmd_del_quote       *)
(* resolve the identifier, read the book with get, change its quote list    *)
(* and write the book back with update.                                     *)
(***************************************************************************)
MaxQuotes == 2

\* re.sub(r'\s+', ' ', s): every run of whitespace becomes one space.
RECURSIVE CollapseSpaces(_)
CollapseSpaces(s) ==
    IF Len(s) < 2 THEN s
    ELSE IF IsSpace(s[1]) /\ IsSpace(s[2]) THEN CollapseSpaces(Tail(s))
    ELSE <<s[1]>> \o CollapseSpaces(Tail(s))

\* _norm_quote without the case folding.
NormQuoteCaseSensitive(s) == Strip(CollapseSpaces(s))

\* _norm_quote
NormQuote(s) == Casefold(Strip(CollapseSpaces(s)))

\* list.pop(idx - 1) for 1 <= idx <= len: the list without its idx-th entry.
RemoveAt(s, idx) == SubSeq(s, 1, idx - 1) \o SubSeq(s, idx + 1, Len(s))

\* The part the two commands share: _resolve_id, then storage.get.  What is
\* printed when the command stops there, and the book when it goes on.
FindBook(userId) ==
    LET r == ResolveId(Load, userId)
        got == Get(CHOOSE v \in r.value : TRUE)
    IN IF r.value = None THEN [printed |-> r.printed, book |-> None]
       ELSE IF got = None THEN [printed |-> "book not found", book |-> None]
       ELSE [printed |-> "nothing", book |-> got]

\* cmd_add_quote up to its storage.update: what it prints, the book it read
\* and the book it passes to update, if it gets there.
CmdAddQuote(userId, text) ==
    LET fb == FindBook(userId)
        b == CHOOSE v \in fb.book : TRUE
        quote == Strip(text)
        SameQuote(q) == NormQuote(q) = NormQuote(quote)
    IN IF fb.book = None THEN [printed |-> fb.printed, book |-> None, update |-> None]
       ELSE IF quote = <<>> THEN [printed |-> "empty", book |-> fb.book, update |-> None]
       ELSE IF SelectSeq(b.quotes, SameQuote) # <<>>
       THEN [printed |-> "duplicate", book |-> fb.book, update |-> None]
       ELSE [printed |-> "added", book |-> fb.book,
             update |-> Some([b EXCEPT !.quotes = Append(@, quote)])]

\* cmd_del_quote up to its storage.update.
CmdDelQuote(userId, idx) ==
    LET fb == FindBook(userId)
        b == CHOOSE v \in fb.book : TRUE
    IN IF fb.book = None THEN [printed |-> fb.printed, book |-> None, update |-> None]
       ELSE IF idx < 1 \/ idx > Len(b.quotes)
       THEN [printed |-> "bad index", book |-> fb.book, update |-> None]
       ELSE [printed |-> "removed", book |-> fb.book,
             update |-> Some([b EXCEPT !.quotes = RemoveAt(@, idx)])]

\* The end of both commands: storage.update(b) on the store in use when the
\* command got that far, nothing written otherwise.  A load() that raises
\* leaves the command from _resolve_id.
QuoteStep(cmd, call) ==
    /\ IF LoadRaises
       THEN /\ last' = [call EXCEPT !.raised = JsonLoad(file).raised, !.before = <<>>]
            /\ UNCHANGED <<file, db>>
       ELSE /\ last' = [call EXCEPT !.printed = cmd.printed, !.book = cmd.book,
                                    !.before = Load]
            /\ IF cmd.update = None THEN UNCHANGED <<file, db>>
               ELSE LET b == CHOOSE v \in cmd.update : TRUE
                    IN IF backend = "json"
                       THEN file' = JsonUpdate(file, b).file /\ UNCHANGED db
                       ELSE db' = SqlClose(db, SqlUpdate(db, b)) /\ UNCHANGED file
    /\ UNCHANGED <<backend, existing, cand, found, args, ret, csv>>

AddQuote(userId, text) ==
    /\ \A b \in CmdAddQuote(userId, text).update : Len(b.quotes) <= MaxQuotes
    /\ QuoteStep(CmdAddQuote(userId, text),
                 [NoCall EXCEPT !.op = "add-quote", !.id = userId, !.text = text])

DelQuote(userId, idx) ==
    QuoteStep(CmdDelQuote(userId, idx),
              [NoCall EXCEPT !.op = "del-quote", !.id = userId, !.index = idx])

\* The identifiers the commands are given: a prefix of both stored ids (the
\* whole of one of them) and the other id in brackets.
QuoteIds == {<<"a">>, <<"[", "a", "b", "]">>}

\* The texts add-quote is given: equal ones up to letter case, outer blanks
\* and runs of blanks, and a blank one.
QuoteTexts ==
    {<<"q">>, <<" ", "Q", " ">>, <<"q", " ", "k">>, <<"Q", " ", " ", "k">>, <<"k">>,
     <<" ">>}

QuoteIndexes == 0..(MaxQuotes + 1)

\* Books without quotes, no two of which collide.
QuotelessPool == {MkBook(<<"a">>, ContentB), MkBook(<<"a", "b">>, ContentD)}

NextQuotes ==
    \/ \E b \in QuotelessPool : JsonAddBook(b)
    \/ \E b \in QuotelessPool : SqlAddBook(b)
    \/ \E i \in QuoteIds, t \in QuoteTexts : AddQuote(i, t)
    \/ \E i \in QuoteIds, n \in QuoteIndexes : DelQuote(i, n)

SpecQuotes == Init /\ [][NextQuotes]_vars

\* The normalisation the specification names for quotes: runs of whitespace
\* collapsed, trimmed, case-folded.
QuoteKey(q) == Casefold(Strip(CollapseSpaces(q)))

QuotesDistinct(b) ==
    \A i, j \in 1..Len(b.quotes) :
        i # j => QuoteKey(b.quotes[i]) # QuoteKey(b.quotes[j])

\* C19: in a store whose books were added without quotes, after any sequence
\* of add-quote and del-quote commands no book has two quotes equal after
\* collapsing whitespace runs, trimming and case folding; and an add-quote
\* whose text is empty after trimming, or normalises to a quote the book
\* has, leaves the stored collection as it was.
C19_QuotesDistinct ==
    /\ \A i \in 1..Len(Load) : QuotesDistinct(Load[i])
    /\ (last.op = "add-quote" /\ last.book # None)
          => LET b == CHOOSE v \in last.book : TRUE
                 rejected == \/ Strip(last.text) = <<>>
                             \/ \E i \in 1..Len(b.quotes) :
                                   QuoteKey(b.quotes[i]) = QuoteKey(last.text)
             IN rejected => Load = last.before

\* An add-quote was rejected for a text that differs from the stored quote
\* it normalises to, on a book that holds two quotes.
C19_Witness ==
    /\ last.op = "add-quote"
    /\ last.printed = "duplicate"
    /\ \E b \in last.book :
          /\ Len(b.quotes) = 2
          /\ \A i \in 1..Len(b.quotes) : b.quotes[i] # Strip(last.text)
          /\ Get(b.id) = Some(b)

\* A file whose one row has a blank second quote, as a spreadsheet or another
\* export leaves it: import_csv keeps every quote that is not the empty string.
QuoteFiles ==
    {<< [CsvRow(<<"a", "b">>, <<"X">>, <<"A">>, <<>>, <<>>)
            EXCEPT !.quotes = <<"q", "|", " ">>] >>}

\* del-quote on stores filled by add and import_csv.
NextDelQuote ==
    \/ \E b \in Pool : JsonAddBook(b)
    \/ \E b \in Pool : SqlAddBook(b)
    \/ \E rows \in QuoteFiles : JsonImportFile(rows)
    \/ \E rows \in QuoteFiles : SqlImportFile(rows)
    \/ \E i \in QuoteIds, n \in QuoteIndexes : DelQuote(i, n)

SpecDelQuote == Init /\ [][NextDelQuote]_vars

\* The list q without its i-th entry, the others in their order.
WithoutEntry(q, i) == [k \in 1..(Len(q) - 1) |-> IF k < i THEN q[k] ELSE q[k + 1]]

\* C20: del-quote on a book with n quotes and an index i: for 1 <= i <= n the
\* book's stored quotes become the former ones without the i-th, in order;
\* for i < 1 or i > n nothing is written, and the book's quotes and every
\* other stored record are as before.
C20_DelQuoteByIndex ==
    (last.op = "del-quote" /\ last.book # None)
        => LET b == CHOOSE v \in last.book : TRUE
           IN IF 1 <= last.index /\ last.index <= Len(b.quotes)
              THEN \E g \in Get(b.id) : g.quotes = WithoutEntry(b.quotes, last.index)
              ELSE Load = last.before

(***************************************************************************)
(* The commands that create and change books: cmd_add builds the book with  *)
(* the factory Book.create and hands it to storage.add; cmd_update reads    *)
(* the book, overwrites the fields that were given and hands it to          *)
(* storage.update.                                                          *)
(***************************************************************************)
\* [t.strip() for t in (tags or []) if t.strip()]
RECURSIVE CreateTags(_)
CreateTags(tags) ==
    IF tags = <<>> THEN <<>>
    ELSE IF Strip(Head(tags)) = <<>> THEN CreateTags(Tail(tags))
    ELSE <<Strip(Head(tags))>> \o CreateTags(Tail(tags))

\* x.strip() if x else None
StripOrNone(o) == IF OrEmpty(o) = <<>> THEN None ELSE Some(Strip(OrEmpty(o)))

\* Book.create with the uuid and the time it draws.
BookCreate(uid, a) ==
    [id |-> uid, title |-> Strip(a.title), author |-> Strip(a.author),
     year |-> a.year, genre |-> StripOrNone(a.genre),
     tags |-> CreateTags(IF a.tags = None THEN <<>> ELSE CHOOSE t \in a.tags : TRUE),
     isbn |-> StripOrNone(a.isbn), pages |-> a.pages, quotes |-> <<>>,
     added_at |-> NowIso]

\* _norm_ci
NormCi(s) == Casefold(Strip(s))

\* _dedupe_keep_order: the loop, with the keys seen so far.
RECURSIVE DedupeKeepOrder(_, _)
DedupeKeepOrder(items, seen) ==
    IF items = <<>> THEN <<>>
    ELSE IF NormCi(Head(items)) \in seen THEN DedupeKeepOrder(Tail(items), seen)
    ELSE <<Head(items)>> \o DedupeKeepOrder(Tail(items), seen \cup {NormCi(Head(items))})

\* A field of cmd_update: the argument when it was given, the stored value
\* otherwise.
Given(arg, stored) == IF arg = None THEN stored ELSE CHOOSE v \in arg : TRUE

\* cmd_update up to its storage.update.  genre, isbn, year and pages are
\* Optional fields of the book, so a given value is stored as Some(value).
CmdUpdate(userId, a) ==
    LET fb == FindBook(userId)
        b == CHOOSE v \in fb.book : TRUE
    IN IF fb.book = None THEN [printed |-> fb.printed, book |-> None, update |-> None]
       ELSE [printed |-> "updated", book |-> fb.book,
             update |-> Some([b EXCEPT
                 !.genre = IF a.genre = None THEN @ ELSE a.genre,
                 !.pages = IF a.pages = None THEN @ ELSE a.pages,
                 !.tags = IF a.tags = None THEN @
                          ELSE DedupeKeepOrder(CHOOSE t \in a.tags : TRUE, {}),
                 !.title = Given(a.title, @),
                 !.author = Given(a.author, @),
                 !.year = IF a.year = None THEN @ ELSE a.year,
                 !.isbn = IF a.isbn = None THEN @ ELSE a.isbn])]

\* The uuid of a new book is one no stored book has.
Uuids == {LongId("a"), LongId("b")}

CmdAddJson(uid, a) ==
    /\ backend = "json"
    /\ ~StoredIn(Load, uid)
    /\ Count < MaxBooks
    /\ JsonStep(JsonAdd(file, BookCreate(uid, a)),
                [NoCall EXCEPT !.op = "cmd-add", !.book = Some(BookCreate(uid, a))])

CmdAddSql(uid, a) ==
    /\ backend = "sqlite"
    /\ ~StoredIn(Load, uid)
    /\ Count < MaxBooks
    /\ SqlStep(SqlAdd(db, BookCreate(uid, a)),
               [NoCall EXCEPT !.op = "cmd-add", !.book = Some(BookCreate(uid, a))])

UpdateCmd(userId, a) ==
    QuoteStep(CmdUpdate(userId, a), [NoCall EXCEPT !.op = "cmd-update", !.id = userId])

\* The arguments of cmd_add: two titles, and tag lists with the same tag
\* twice, in two letter cases, padded, and blank.
CreateArgs ==
    {[title |-> t, author |-> <<"A">>, year |-> None, genre |-> None, tags |-> g,
      isbn |-> None, pages |-> None] :
        t \in {<<"T">>, <<" ", "U">>},
        g \in {None, Some(<< <<"k">>, <<"K">> >>), Some(<< <<" ", "k">>, <<"k">>, <<" ">> >>),
               Some(<< <<"q">> >>)}}

\* The arguments of cmd_update: nothing but the tags, the tags and the
\* genre, or the title alone.
NoChange ==
    [genre |-> None, pages |-> None, tags |-> None, title |-> None, author |-> None,
     year |-> None, isbn |-> None]

UpdateArgs ==
    {[NoChange EXCEPT !.tags = Some(<< <<"q">>, <<"K">>, <<" ", "k">>, <<"Q">> >>)],
     [NoChange EXCEPT !.tags = Some(<<>>), !.genre = Some(<<"g">>)],
     [NoChange EXCEPT !.title = Some(<<"U">>)]}

UpdateIds == {<<"a">>, <<"[", "b", "]">>}

\* Files of one row: the id of a book cmd_add may have stored, another
\* added_at, and two tags that differ in letter case only.
CommandFiles ==
    {<< [CsvRow(uid, <<"X">>, <<"A">>, <<>>, <<>>)
            EXCEPT !.tags = <<"k", ";", "K">>, !.added_at = "T1"] >> : uid \in Uuids}

NextCommands ==
    \/ \E uid \in Uuids, a \in CreateArgs : CmdAddJson(uid, a)
    \/ \E uid \in Uuids, a \in CreateArgs : CmdAddSql(uid, a)
    \/ \E i \in UpdateIds, a \in UpdateArgs : UpdateCmd(i, a)
    \/ \E rows \in CommandFiles : JsonImportFile(rows)
    \/ \E rows \in CommandFiles : SqlImportFile(rows)

SpecCommands == Init /\ [][NextCommands]_vars

TagsDistinct(b) ==
    \A i, j \in 1..Len(b.tags) : i # j => Casefold(b.tags[i]) # Casefold(b.tags[j])

\* C21: every stored book, created by Book.create and then stored and
\* changed by cmd_add, cmd_update and import_csv, has no two tags that are
\* equal when letter case is ignored.
C21_TagsDistinct == \A i \in 1..Len(Load) : TagsDistinct(Load[i])

\* One book per uuid for cmd_add, and a book with the first uuid and another
\* added_at for a direct storage.update.
PlainArgs(title) ==
    [title |-> title, author |-> <<"A">>, year |-> None, genre |-> None, tags |-> None,
     isbn |-> None, pages |-> None]

StampBooks ==
    {<<LongId("a"), PlainArgs(<<"T">>)>>, <<LongId("b"), PlainArgs(<<"U">>)>>}

UpdatePool == {MkBook(LongId("a"), ContentB)}

StampTexts == {<<"q">>, <<" ", "Q", " ">>}

StampUpdates == {[NoChange EXCEPT !.title = Some(<<"U">>), !.genre = Some(<<"g">>)]}

\* Every operation that changes a stored record without deleting it.
NextStamps ==
    \/ \E p \in StampBooks : CmdAddJson(p[1], p[2])
    \/ \E p \in StampBooks : CmdAddSql(p[1], p[2])
    \/ \E i \in UpdateIds, a \in StampUpdates : UpdateCmd(i, a)
    \/ \E i \in UpdateIds, t \in StampTexts : AddQuote(i, t)
    \/ \E i \in UpdateIds, n \in QuoteIndexes : DelQuote(i, n)
    \/ \E b \in UpdatePool : JsonUpdateBook(b)
    \/ \E b \in UpdatePool : SqlUpdateBook(b)
    \/ \E rows \in CommandFiles : JsonImportFile(rows)
    \/ \E rows \in CommandFiles : SqlImportFile(rows)

SpecStamps == Init /\ [][NextStamps]_vars

\* C22: added_at is set once: a step of cmd_update, add-quote, del-quote,
\* storage.update or import_csv leaves every id that is stored before and
\* after it with the added_at it had.
C22_AddedAtFixed ==
    [][\A i \in 1..Len(Load) : \A j \in 1..Len(Load') :
          Load[i].id = Load'[j].id => Load[i].added_at = Load'[j].added_at]_vars

(***************************************************************************)
(* The two backends side by side: the same call is made on a Storage and    *)
(* on a SqliteStorage, both empty at the start; `ret` keeps what each       *)
(* returned or raised.                                                      *)
(***************************************************************************)
InitBoth ==
    /\ backend = "both"
    /\ file = JsonSaveRaw(<<>>)
    /\ db = EmptyDb
    /\ last = NoCall
    /\ existing = <<>>
    /\ cand = MkBook(<<"a">>, ContentA)
    /\ found = [done |-> FALSE, json |-> None, sql |-> None]
    /\ args = NoArgs
    /\ ret = NoRet
    /\ csv = NoCsv

\* What a call gave back: the flag, the conflicting record of a refused add,
\* the book of a get, the exception.
Returned(ok, dup, book, raised) ==
    [ok |-> ok, dup |-> dup, book |-> book, raised |-> raised]

BothStep(op, js, sq) ==
    /\ backend = "both"
    /\ file' = js.file
    /\ db' = SqlClose(db, sq)
    /\ ret' = [done |-> TRUE, op |-> op,
               json |-> Returned(js.ok, js.dup, None, js.raised),
               sql |-> Returned(sq.ok, sq.dup, None, sq.raised)]
    /\ UNCHANGED <<backend, last, existing, cand, found, args, csv>>

BothAdd(b) ==
    /\ Len(JsonLoadRaw(file).items) < MaxBooks
    /\ Len(db.books) < MaxBooks
    /\ BothStep("add", JsonAdd(file, b), SqlAdd(db, b))

BothUpdate(b) == BothStep("update", JsonUpdate(file, b), SqlUpdate(db, b))

BothDelete(id) == BothStep("delete", JsonDelete(file, id), SqlDelete(db, id))

BothGet(id) ==
    /\ backend = "both"
    /\ ret' = [done |-> TRUE, op |-> "get",
               json |-> Returned(FALSE, None, JsonGet(file, id).book, JsonGet(file, id).raised),
               sql |-> Returned(FALSE, None, SqlGet(db, id), NoError)]
    /\ UNCHANGED <<file, db, backend, last, existing, cand, found, args, csv>>

NextBoth ==
    \/ \E b \in Pool : BothAdd(b)
    \/ \E b \in Pool : BothUpdate(b)
    \/ \E id \in Ids : BothDelete(id)
    \/ \E id \in Ids : BothGet(id)

SpecBoth == InitBoth /\ [][NextBoth]_vars

\* C23: the same sequence of add, update, delete and get on the two
\* backends, both empty at the start: every call returns the same on both
\* (flag, conflicting record, book) and after every call the two stores hold
\* the same records, equal in every field.
C23_BackendsEquivalent ==
    ret.done => (ret.json = ret.sql /\ SameRecords(JsonLoad(file).books, SqlLoad(db)))

\* Rows for the upsert branch: two ids, each with a row that collides with a
\* row of the other id, on title, author and year or on isbn.
UpsertRowPool ==
    {CsvRow(<<"a">>, <<"T">>, <<"A">>, <<"2", "0", "0", "0">>, <<"x">>),
     CsvRow(<<"a", "b">>, <<"t">>, <<"a">>, <<"2", "0", "0", "0">>, <<>>),
     CsvRow(<<"a">>, <<"U">>, <<"B">>, <<>>, <<>>),
     CsvRow(<<"a", "b">>, <<"U">>, <<"A">>, <<>>, <<"X">>)}

NextUpsert ==
    \/ \E rows \in SeqsUpTo(UpsertRowPool, MaxRows) : JsonImportFile(rows)
    \/ \E rows \in SeqsUpTo(UpsertRowPool, MaxRows) : SqlImportFile(rows)

SpecUpsert == Init /\ [][NextUpsert]_vars

\* The rows of the imported file whose id was stored before the import; of
\* several rows with one id the last.
UpsertRows ==
    {k \in 1..Len(csv.rows) :
        /\ StoredIn(last.before, RowRecord(csv.rows[k]).id)
        /\ \A m \in (k + 1)..Len(csv.rows) : csv.rows[m].id # csv.rows[k].id}

\* C24: import_csv replaces the stored record that has a row's id by the
\* row's record whether or not it collides with another stored record: after
\* an import that raised nothing the store holds the record of every such
\* row, so two records with different ids that collide under the Duplicate
\* Detector can be stored.
C24_UpsertSkipsDetection ==
    (last.op = "import" /\ last.raised = NoError)
        => \A k \in UpsertRows : \E i \in 1..Len(Load) : Load[i] = RowRecord(csv.rows[k])

\* An import replaced a stored record by a row that collides with a record
\* of another id, and both are stored.
C24_Witness ==
    /\ last.op = "import"
    /\ last.raised = NoError
    /\ \E k \in UpsertRows : \E i, j \in 1..Len(Load) :
          /\ Load[i] = RowRecord(csv.rows[k])
          /\ Load[j].id # Load[i].id
          /\ Collides(Load[i], Load[j])

\* Books for stores built by add alone: titles that differ in the case of a
\* Latin or of a Cyrillic letter, with and without an isbn, under three ids.
CasePool ==
    {MkBook(i, c) : i \in Ids \cup {<<"b">>},
                    c \in {d \in DupContents :
                              /\ d.author = <<"A">>
                              /\ d.year = None
                              /\ d.isbn \in {None, Some(<<"x">>)}}}

NextAddDelete ==
    \/ \E b \in CasePool : JsonAddBook(b)
    \/ \E b \in CasePool : SqlAddBook(b)
    \/ \E id \in Ids \cup {<<"b">>} : JsonDeleteBook(id)
    \/ \E id \in Ids \cup {<<"b">>} : SqlDeleteBook(id)

SpecAddDelete == Init /\ [][NextAddDelete]_vars

\* C25: in a store built from the empty one by add and delete, no two stored
\* records collide under the Duplicate Detector.
C25_NoStoredDuplicates ==
    \A i, j \in 1..Len(Load) : i # j => ~Collides(Load[i], Load[j])

\* C26: on a collection whose ids are pairwise different, _resolve_id called
\* with the complete id of a record returns that id, whatever the length of
\* the id and whatever other ids are stored.
C26_FullIdResolves ==
    (/\ ret.done
     /\ args.fn = "resolve_id"
     /\ \A i, j \in 1..Len(args.books) : args.books[i].id = args.books[j].id => i = j
     /\ \E k \in 1..Len(args.books) : args.books[k].id = args.user_id)
        => ret.value = Some(args.user_id)

====
